---- MODULE Spec2Model ----
(***************************************************************************)
(* A model of the ingestion and retrieval pipeline of the RAG backend:     *)
(* src/rag/ingest.py (clean_pdf_text, extract_chapter_info,                *)
(* SmartTextSplitter, DocumentIngestor.upload_to_qdrant) and               *)
(* src/rag/retrieve.py (DocumentRetriever), with the routes                *)
(* upload_knowledge, delete_file and overwrite_file of                     *)
(* src/api/knowledge.py, and                                               *)
(* ensure_collection_exists of src/core/qdrant_client.py.                  *)
(*                                                                         *)
(* Python strings are TLA+ strings; a character is a string of length 1.   *)
(* The module is kept in ASCII: the accented letters of the source are     *)
(* written with one ASCII character each,                                  *)
(*     "@" for e-acute, "|" for i-acute, "*" for o-acute,                  *)
(*     "&" for capital I-acute,                                            *)
(* so that "cap|tulo" is the source's word with the accent and "capitulo"  *)
(* the one without, and every string keeps its length.                     *)
(***************************************************************************)
EXTENDS Integers, Sequences, FiniteSets, TLC

VARIABLES
    \* SmartTextSplitter.split_text
    text,                \* the argument of split_text
    chunk_size,          \* self.chunk_size
    chunk_overlap,       \* self.chunk_overlap
    lines,               \* text.split('\n')
    pos,                 \* index (1-based) of the next line the for loop takes
    current_chunk,       \* the buffer as a string
    current_chunk_lines, \* the buffer as a list of lines
    chunk_metadata,      \* the chapter metadata of the buffer
    chunks,              \* the chunks emitted so far
    last_split,          \* which branch the last iteration took
    pc_split,            \* "start", "loop", "done"; "off" when split_text is not run
    \* DocumentRetriever._expand_query
    query,               \* the query argument of _expand_query and of the searches
    unique_queries,      \* the return value of _expand_query
    pc_expand,           \* "call", "done"; "off" when _expand_query is not run
    \* the vector store and the embedding space
    store,               \* the points of the collection
    sim,                 \* sim[i][p]: the score of point p for the i-th query variant
    \* DocumentRetriever.search_similar_documents and get_context_for_query
    caller,              \* "search" or "get_context": the method that was called
    limit,               \* limit of search_similar_documents
    score_threshold,     \* score_threshold
    use_query_expansion, \* use_query_expansion
    max_chunks,          \* max_chunks of get_context_for_query
    max_chars,           \* max_chars of get_context_for_query
    queries,             \* the query variants
    qi,                  \* index of the variant the loop of line 123 is at
    ti,                  \* index of the threshold the loop of line 133 is at
    all_results,         \* all_results
    final_results,       \* the list search_similar_documents returned
    search_error,        \* the except clause of line 178 was taken
    bundle,              \* the dict get_context_for_query returned
    searches,            \* the calls of client.search made so far, in order
    pc_search,           \* "idle", "client", "embed", "search", "returned", "done"
    \* DocumentIngestor.upload_to_qdrant
    filename,            \* file.filename
    file_content,        \* the bytes of the upload
    temp_file_path,      \* temp_file_path
    temp_files,          \* the paths of the temporary files that exist
    documents,           \* documents
    cleaned_documents,   \* cleaned_documents
    all_chunks,          \* all_chunks
    points,              \* the points built for the upsert
    collection,          \* the points of the Qdrant collection
    error,               \* the exception in flight, NoError if none
    returned,            \* the value of the return statement, NoResponse if none
    response,            \* what the caller gets: the result or the exception
    pc_ingest,           \* the position in upload_to_qdrant
    \* clean_pdf_text
    raw,                 \* the text clean_pdf_text is first called with
    cleaned,             \* the values returned so far, each call taking the last
    \* the routes of src/api/knowledge.py
    kb_points,           \* the points of the collection "knowledge_base"
    upload,              \* upload[r]: the request r of upload_knowledge
    delete_filename,     \* filename of delete_file
    points_to_delete,    \* points_to_delete
    offset,              \* offset
    delete_response,     \* what the caller of delete_file gets
    kb_before,           \* the points of the collection when delete_file was called
    delete_calls,        \* the calls of delete_file so far
    pc_delete,           \* "idle", "scroll", "scrolled", "done"
    overwrite,           \* the call of overwrite_file: its arguments and where it is
    \* ensure_collection_exists and the store it sets up
    collections,         \* the names of the collections of the store
    payload_schema,      \* the indexed payload fields of "knowledge_base"
    indexed_fields,      \* indexed_fields
    schema_read,         \* get_collection answered in this call
    field_i,             \* index of the field the loop of lines 61 and 83 is at
    issued,              \* the create operations this call has sent to the store
    creations,           \* what the store has created, over all calls
    setup_before,        \* the store when the call began
    setup_calls,         \* the calls of ensure_collection_exists so far
    pc_setup             \* "idle", "list", "create", "schema", "fields", "done", "raised"

splitVars == <<text, chunk_size, chunk_overlap, lines, pos, current_chunk,
               current_chunk_lines,
               chunk_metadata, chunks, last_split, pc_split>>

expandVars == <<unique_queries, pc_expand>>

storeVars == <<store, sim>>

searchVars == <<caller, limit, score_threshold, use_query_expansion, max_chunks, max_chars,
                queries, qi, ti, all_results, final_results, search_error, bundle,
                searches, pc_search>>

ingestVars == <<filename, file_content, temp_file_path, temp_files, documents,
                cleaned_documents, all_chunks, points, collection, error, returned,
                response, pc_ingest>>

cleanVars == <<raw, cleaned>>

uploadVars == <<kb_points, upload>>

deleteVars == <<delete_filename, points_to_delete, offset, delete_response, kb_before,
                delete_calls, pc_delete>>

setupVars == <<collections, payload_schema, indexed_fields, schema_read, field_i, issued,
               creations, setup_before, setup_calls, pc_setup>>

apiVars == <<uploadVars, deleteVars, overwrite, setupVars>>

vars == <<splitVars, query, expandVars, storeVars, searchVars, ingestVars, cleanVars,
          apiVars>>

\* what the steps of one subsystem leave alone
notSplit == <<query, expandVars, storeVars, searchVars, ingestVars, cleanVars, apiVars>>

notExpand == <<splitVars, storeVars, searchVars, ingestVars, cleanVars, apiVars>>

notSearch == <<splitVars, expandVars, storeVars, ingestVars, cleanVars, apiVars>>

notIngest == <<splitVars, query, expandVars, storeVars, searchVars, cleanVars, apiVars>>

notClean == <<splitVars, query, expandVars, storeVars, searchVars, ingestVars, apiVars>>

notApi == <<splitVars, query, expandVars, storeVars, searchVars, ingestVars, cleanVars>>

notUpload == <<deleteVars, overwrite, setupVars, notApi>>

notDelete == <<upload, overwrite, setupVars, notApi>>

notOverwrite == <<upload, setupVars, notApi>>

notSetup == <<uploadVars, deleteVars, overwrite, notApi>>

-----------------------------------------------------------------------------
(* Strings                                                                 *)

Max(a, b) == IF a >= b THEN a ELSE b
Min(a, b) == IF a <= b THEN a ELSE b

\* s[i] of Python, 1-based
At(s, i) == SubSeq(s, i, i)

\* s[i:] of Python, 1-based and inclusive
From(s, i) == SubSeq(s, i, Len(s))

\* the characters \s matches
Spaces == {" ", "\n", "\t"}

IsSpace(c) == c \in Spaces

\* the characters \d matches
Digits == {"0", "1", "2", "3", "4", "5", "6", "7", "8", "9"}

IsDigit(c) == c \in Digits

\* s.startswith(p) from position i
StartsAt(s, i, p) == i + Len(p) - 1 <= Len(s) /\ SubSeq(s, i, i + Len(p) - 1) = p

\* s.find(p, i): the first position >= i where p occurs in s, 0 if none
RECURSIVE FindFrom(_, _, _)
FindFrom(s, p, i) ==
    IF i + Len(p) - 1 > Len(s) THEN 0
    ELSE IF StartsAt(s, i, p) THEN i
    ELSE FindFrom(s, p, i + 1)

\* p in s
Contains(s, p) == FindFrom(s, p, 1) > 0

\* the capital letters and, at the same positions, their lower-case letters
UpperLetters == "ABCDEFGHIJKLMNOPQRSTUVWXYZ&"
LowerLetters == "abcdefghijklmnopqrstuvwxyz|"

UpperSet == {At(UpperLetters, i) : i \in 1..Len(UpperLetters)}

LowerOf == [c \in UpperSet |-> At(LowerLetters, FindFrom(UpperLetters, c, 1))]

\* str.lower() on one character
LowerChar(c) == IF c \in UpperSet THEN LowerOf[c] ELSE c

RECURSIVE Lower(_)
Lower(s) == IF s = "" THEN "" ELSE LowerChar(Head(s)) \o Lower(Tail(s))

\* s.lstrip(), s.rstrip(), s.strip()
RECURSIVE LStrip(_)
LStrip(s) == IF s # "" /\ IsSpace(Head(s)) THEN LStrip(Tail(s)) ELSE s

RECURSIVE RStrip(_)
RStrip(s) ==
    IF s # "" /\ IsSpace(At(s, Len(s))) THEN RStrip(SubSeq(s, 1, Len(s) - 1)) ELSE s

Strip(s) == RStrip(LStrip(s))

\* s.split('\n')
RECURSIVE SplitNL(_)
SplitNL(s) ==
    LET i == FindFrom(s, "\n", 1)
    IN  IF i = 0 THEN <<s>>
        ELSE <<SubSeq(s, 1, i - 1)>> \o SplitNL(From(s, i + 1))

\* "\n".join(ls)
RECURSIVE JoinNL(_)
JoinNL(ls) ==
    IF ls = <<>> THEN ""
    ELSE IF Len(ls) = 1 THEN ls[1]
    ELSE ls[1] \o "\n" \o JoinNL(Tail(ls))

\* the end (inclusive) of the run of characters of the set S that starts at i;
\* i - 1 if s[i] is not in S
RECURSIVE RunEnd(_, _, _)
RunEnd(s, i, S) ==
    IF i <= Len(s) /\ At(s, i) \in S THEN RunEnd(s, i + 1, S) ELSE i - 1

\* int(s) for a string of digits
DigitVal(c) ==
    CASE c = "0" -> 0 [] c = "1" -> 1 [] c = "2" -> 2 [] c = "3" -> 3 [] c = "4" -> 4
      [] c = "5" -> 5 [] c = "6" -> 6 [] c = "7" -> 7 [] c = "8" -> 8 [] c = "9" -> 9

RECURSIVE ToInt(_)
ToInt(s) ==
    IF s = "" THEN 0 ELSE 10 * ToInt(SubSeq(s, 1, Len(s) - 1)) + DigitVal(At(s, Len(s)))

Range(f) == {f[i] : i \in DOMAIN f}

\* all sequences over S of length 0..n
SeqsUpTo(S, n) == UNION {[1..k -> S] : k \in 0..n}

\* the concatenation of the strings of ps
RECURSIVE Concat(_)
Concat(ps) == IF ps = <<>> THEN "" ELSE Head(ps) \o Concat(Tail(ps))

-----------------------------------------------------------------------------
(* Chapter markers: the pattern  keyword \s+ (\d+)  with re.IGNORECASE      *)

\* re.search(kw + r'\s+(\d+)', s, re.IGNORECASE) from position i on:
\* [start, end, num] of the leftmost match, start = 0 if there is none
RECURSIVE MarkerFrom(_, _, _)
MarkerFrom(s, kw, i) ==
    IF i + Len(kw) - 1 > Len(s) THEN [start |-> 0, end |-> 0, num |-> ""]
    ELSE LET k  == i + Len(kw)                    \* first character after the keyword
             se == RunEnd(s, k, Spaces)           \* \s+
             de == RunEnd(s, se + 1, Digits)      \* (\d+)
         IN  IF /\ Lower(SubSeq(s, i, k - 1)) = Lower(kw)
                /\ se >= k
                /\ de >= se + 1
             THEN [start |-> i, end |-> de, num |-> SubSeq(s, se + 1, de)]
             ELSE MarkerFrom(s, kw, i + 1)

None == "None"

\* (pattern keyword, prefix) of extract_chapter_info, in the order of the source
chapter_patterns ==
    << <<"CAP&TULO", "CAP&TULO">>, <<"CAPITULO", "CAP&TULO">>, <<"Chapter", "Chapter">>,
       <<"Secci*n", "Secci*n">>,   <<"Section", "Section">>,   <<"Tema", "Tema">>,
       <<"Parte", "Parte">> >>

\* the dict extract_chapter_info starts from
NoChapterInfo ==
    [current_chapter |-> None, current_section |-> None,
     chapter_number |-> None, section_number |-> None]

RECURSIVE ChapterInfoFrom(_, _)
ChapterInfoFrom(s, k) ==
    IF k > Len(chapter_patterns) THEN NoChapterInfo
    ELSE LET m == MarkerFrom(s, chapter_patterns[k][1], 1)
         IN  IF m.start > 0
             THEN [NoChapterInfo EXCEPT
                     !.current_chapter = chapter_patterns[k][2] \o " " \o m.num,
                     !.chapter_number  = ToInt(m.num)]
             ELSE ChapterInfoFrom(s, k + 1)

extract_chapter_info(s) == ChapterInfoFrom(s, 1)

-----------------------------------------------------------------------------
(* clean_pdf_text                                                          *)

\* the characters \w matches among those the model's strings use
WordChars ==
    UpperSet \cup {At(LowerLetters, i) : i \in 1..Len(LowerLetters)}
        \cup {"@", "*", "_"} \cup Digits

\* the punctuation the character class of line 33 keeps
KeptPunctuation ==
    {".", ",", ";", ":", "!", "?", "-", "(", ")", "[", "]", "{", "}", "'", "\""}

\* the characters line 33 keeps; every other character is an artifact
KeptChars == WordChars \cup Spaces \cup KeptPunctuation

\* re.sub of every maximal run, at least n long, of characters c with
\* (c \in S) = member, by rep
RECURSIVE SubRuns(_, _, _, _, _)
SubRuns(s, S, member, n, rep) ==
    IF s = "" THEN ""
    ELSE IF (Head(s) \in S) = member
    THEN LET e == IF member THEN RunEnd(s, 1, S)
                  ELSE RunEnd(s, 1, {At(s, i) : i \in 1..Len(s)} \ S)
         IN  (IF e >= n THEN rep ELSE SubSeq(s, 1, e))
             \o SubRuns(From(s, e + 1), S, member, n, rep)
    ELSE Head(s) \o SubRuns(Tail(s), S, member, n, rep)

\* s.replace(old, new)
RECURSIVE Replace(_, _, _)
Replace(s, old, new) ==
    LET i == FindFrom(s, old, 1)
    IN  IF old = "" \/ i = 0 THEN s
        ELSE SubSeq(s, 1, i - 1) \o new \o Replace(From(s, i + Len(old)), old, new)

\* re.sub('(' + kw + r'\s+\d+)', r'\n\1\n', s, flags=re.IGNORECASE)
RECURSIVE IsolateMarkers(_, _)
IsolateMarkers(s, kw) ==
    LET m == MarkerFrom(s, kw, 1)
    IN  IF m.start = 0 THEN s
        ELSE SubSeq(s, 1, m.start - 1) \o "\n" \o SubSeq(s, m.start, m.end) \o "\n"
             \o IsolateMarkers(From(s, m.end + 1), kw)

\* lines 55-56: the loop over the seven patterns, from the k-th on
RECURSIVE IsolateAll(_, _)
IsolateAll(s, k) ==
    IF k > Len(chapter_patterns) THEN s
    ELSE IsolateAll(IsolateMarkers(s, chapter_patterns[k][1]), k + 1)

\* s.strip(' \t') on one side or both
RECURSIVE LStripBlank(_)
LStripBlank(s) == IF s # "" /\ Head(s) \in {" ", "\t"} THEN LStripBlank(Tail(s)) ELSE s

RECURSIVE RStripBlank(_)
RStripBlank(s) ==
    IF s # "" /\ At(s, Len(s)) \in {" ", "\t"}
    THEN RStripBlank(SubSeq(s, 1, Len(s) - 1)) ELSE s

\* re.sub(r'[ \t]*\n[ \t]*', '\n', s): the blanks on both sides of every newline go
CleanLineEndings(s) ==
    LET ls == SplitNL(s)
        n  == Len(ls)
    IN  JoinNL([i \in 1..n |->
                  LET a == IF i > 1 THEN LStripBlank(ls[i]) ELSE ls[i]
                  IN  IF i < n THEN RStripBlank(a) ELSE a])

\* str.isdigit()
IsDigitStr(s) == s # "" /\ \A i \in 1..Len(s) : IsDigit(At(s, i))

\* lines 63-73: strip every line; drop the empty ones, the numbers of at most
\* three digits and the lines of one character
RECURSIVE KeepLines(_)
KeepLines(ls) ==
    IF ls = <<>> THEN <<>>
    ELSE LET line == Strip(Head(ls))
         IN  IF line # "" /\ ~(IsDigitStr(line) /\ Len(line) <= 3) /\ Len(line) > 1
             THEN <<line>> \o KeepLines(Tail(ls))
             ELSE KeepLines(Tail(ls))

\* clean_pdf_text with line 35 putting a space for an ellipsis
clean_pdf_text_blanking_ellipsis(t) ==
    IF t = "" THEN ""
    ELSE LET t1 == SubRuns(t, KeptChars, FALSE, 1, " ")
             t2 == SubRuns(t1, Spaces, TRUE, 1, " ")
             t3 == SubRuns(t2, {"."}, TRUE, 3, " ")
             t4 == SubRuns(t3, {"-"}, TRUE, 2, "--")
             t5 == Replace(t4, "\t", " ")
             t6 == IsolateAll(t5, 1)
             t7 == SubRuns(t6, {"\n"}, TRUE, 4, "\n\n\n")
             t8 == CleanLineEndings(t7)
         IN  Strip(JoinNL(KeepLines(SplitNL(t8))))

clean_pdf_text(t) ==
    IF t = "" THEN ""
    ELSE LET t1 == SubRuns(t, KeptChars, FALSE, 1, " ")   \* line 33
             t2 == SubRuns(t1, Spaces, TRUE, 1, " ")        \* line 34
             t3 == SubRuns(t2, {"."}, TRUE, 3, "...")       \* line 35
             t4 == SubRuns(t3, {"-"}, TRUE, 2, "--")        \* line 36
             t5 == Replace(t4, "\t", " ")                   \* line 40
             t6 == IsolateAll(t5, 1)                        \* lines 55-56
             t7 == SubRuns(t6, {"\n"}, TRUE, 4, "\n\n\n")   \* line 59
             t8 == CleanLineEndings(t7)                     \* line 60
         IN  Strip(JoinNL(KeepLines(SplitNL(t8))))          \* lines 63-76

-----------------------------------------------------------------------------
(* clean_pdf_text, called on a text and again on what it returned          *)

MaxCleanPieces == 4

\* the pieces the texts are made of
CleanPieces == {"ab", " ", "\n", "Tema", "1", "x", "...", "~"}

MaxCleanCalls == 2

CleanOff ==
    /\ raw = ""
    /\ cleaned = <<>>

InitCleaner ==
    /\ raw \in {Concat(ps) : ps \in SeqsUpTo(CleanPieces, MaxCleanPieces)}
    /\ cleaned = <<>>

\* clean_pdf_text is called with the text, or with what the last call returned
CleanText ==
    /\ Len(cleaned) < MaxCleanCalls
    /\ cleaned' = Append(cleaned, clean_pdf_text(IF cleaned = <<>> THEN raw
                                                 ELSE cleaned[Len(cleaned)]))
    /\ UNCHANGED raw

-----------------------------------------------------------------------------
(* SmartTextSplitter                                                       *)

\* {} : the metadata of a buffer that has seen no marker
EmptyDict == [current_chapter |-> None]

\* the lowest index (0-based) >= i of a line that is empty after strip(), or -1
RECURSIVE BlankFrom(_, _)
BlankFrom(ls, i) ==
    IF i >= Len(ls) THEN -1
    ELSE IF Strip(ls[i + 1]) = "" THEN i
    ELSE BlankFrom(ls, i + 1)

\* a split point at the end of the buffer, which would put every buffered line
\* in the chunk
find_natural_split_at_end(ls) == Len(ls)

\* _find_natural_split(lines): a 0-based index
find_natural_split(ls) ==
    LET start_search == Len(ls) \div 2
        i == BlankFrom(ls, start_search)
    IN  IF i >= 0 THEN i ELSE Len(ls) \div 2

\* lines[a:b] of Python (0-based, b exclusive)
Slice(ls, a, b) == SubSeq(ls, a + 1, b)

Chunk(content, metadata) == [content |-> content, metadata |-> metadata]

\* the local state of split_text's loop
SplitState(cc, ccl, md, cs) ==
    [current_chunk |-> cc, current_chunk_lines |-> ccl, chunk_metadata |-> md, chunks |-> cs]

\* the branch one iteration of the loop takes for `line`
SplitBranch(st, line, size) ==
    LET chapter_info == extract_chapter_info(line)
        cc  == st.current_chunk \o line \o "\n"
        ccl == Append(st.current_chunk_lines, line)
    IN  IF /\ chapter_info.current_chapter # None
           /\ st.current_chunk # ""
           /\ Len(st.current_chunk) > size \div 2
        THEN "chapter"
        ELSE IF Len(cc) < size THEN "add"
        ELSE IF find_natural_split(ccl) > 0 THEN "natural"
        ELSE "forced"

\* lines 191-194: the buffer after a natural split at split_point
OverlapLines(ccl, split_point) == Slice(ccl, Max(0, split_point - 3), split_point)

\* lines 158-167: a marker line arrives and the buffer is more than half full
ChapterFlush(st, line) ==
    SplitState(line \o "\n", <<line>>, extract_chapter_info(line),
               Append(st.chunks, Chunk(Strip(st.current_chunk), st.chunk_metadata)))

\* lines 170-203: the line is added, and the buffer split if it reached chunk_size
AddLine(st, line, size) ==
    LET chapter_info == extract_chapter_info(line)
        cc  == st.current_chunk \o line \o "\n"
        ccl == Append(st.current_chunk_lines, line)
        md  == IF chapter_info.current_chapter # None THEN chapter_info
               ELSE st.chunk_metadata
        split_point == find_natural_split(ccl)
    IN  IF Len(cc) >= size
        THEN IF split_point > 0
             THEN LET overlap_lines == OverlapLines(ccl, split_point)
                  IN  SplitState(JoinNL(overlap_lines) \o "\n", overlap_lines, md,
                        Append(st.chunks,
                               Chunk(Strip(JoinNL(Slice(ccl, 0, split_point))), md)))
             ELSE SplitState("", <<>>, EmptyDict,
                             Append(st.chunks, Chunk(Strip(cc), md)))
        ELSE SplitState(cc, ccl, md, st.chunks)

\* one iteration of the for loop (lines 149-203)
SplitLine(st, line, size) ==
    IF SplitBranch(st, line, size) = "chapter" THEN ChapterFlush(st, line)
    ELSE AddLine(st, line, size)

\* lines 205-212: the final chunk and the return value
SplitReturn(st) ==
    IF Strip(st.current_chunk) # ""
    THEN Append(st.chunks, Chunk(Strip(st.current_chunk), st.chunk_metadata))
    ELSE st.chunks

RECURSIVE SplitLoop(_, _, _, _)
SplitLoop(st, ls, i, size) ==
    IF i > Len(ls) THEN SplitReturn(st)
    ELSE SplitLoop(SplitLine(st, ls[i], size), ls, i + 1, size)

\* SmartTextSplitter.split_text as a function of the text and self.chunk_size
split_text(t, size) ==
    IF t = "" THEN <<>>
    ELSE SplitLoop(SplitState("", <<>>, EmptyDict, <<>>), SplitNL(t), 1, size)

-----------------------------------------------------------------------------
(* split_text, one loop iteration per step                                 *)

MaxLines == 4

\* the lines the input texts are made of
LineAlphabet == {"", "ab", "abcdefgh", "Tema 1", "Tema 234"}

\* the values of chunk_size
ChunkSizes == {6, 12}

\* the values of chunk_overlap: one line, and the 300 of the ingestor
ChunkOverlaps == {1, 300}

SplitLocal == SplitState(current_chunk, current_chunk_lines, chunk_metadata, chunks)

SetSplitLocal(st) ==
    /\ current_chunk' = st.current_chunk
    /\ current_chunk_lines' = st.current_chunk_lines
    /\ chunk_metadata' = st.chunk_metadata
    /\ chunks' = st.chunks

\* split_text is not run
SplitOff ==
    /\ text = ""
    /\ chunk_size = 0
    /\ chunk_overlap = 0
    /\ lines = <<>>
    /\ pos = 1
    /\ current_chunk = ""
    /\ current_chunk_lines = <<>>
    /\ chunk_metadata = EmptyDict
    /\ chunks = <<>>
    /\ last_split = "none"
    /\ pc_split = "off"

InitSplitter ==
    /\ text \in {JoinNL(ls) : ls \in SeqsUpTo(LineAlphabet, MaxLines)}
    /\ chunk_size \in ChunkSizes
    /\ chunk_overlap \in ChunkOverlaps
    /\ lines = <<>>
    /\ pos = 1
    /\ current_chunk = ""
    /\ current_chunk_lines = <<>>
    /\ chunk_metadata = EmptyDict
    /\ chunks = <<>>
    /\ last_split = "none"
    /\ pc_split = "start"

\* lines 140-147
SplitBegin ==
    /\ pc_split = "start"
    /\ IF text = ""
       THEN pc_split' = "done" /\ lines' = <<>>
       ELSE pc_split' = "loop" /\ lines' = SplitNL(text)
    /\ UNCHANGED <<text, chunk_size, chunk_overlap, pos, current_chunk,
                   current_chunk_lines, chunk_metadata, chunks, last_split>>

\* the loop is at a line that takes `branch`
SplitTakes(branch) ==
    /\ pc_split = "loop"
    /\ pos <= Len(lines)
    /\ SplitBranch(SplitLocal, lines[pos], chunk_size) = branch

\* one iteration of the loop
SplitIter(branch) ==
    /\ SetSplitLocal(SplitLine(SplitLocal, lines[pos], chunk_size))
    /\ pos' = pos + 1
    /\ last_split' = branch
    /\ UNCHANGED <<text, chunk_size, chunk_overlap, lines, pc_split>>

SplitChapter ==
    /\ SplitTakes("chapter")
    /\ SplitIter("chapter")

SplitAdd ==
    /\ SplitTakes("add")
    /\ SplitIter("add")

SplitNatural ==
    /\ SplitTakes("natural")
    /\ SplitIter("natural")

SplitForced ==
    /\ SplitTakes("forced")
    /\ SplitIter("forced")

SplitEnd ==
    /\ pc_split = "loop"
    /\ pos > Len(lines)
    /\ chunks' = SplitReturn(SplitLocal)
    /\ pc_split' = "done"
    /\ last_split' = "end"
    /\ UNCHANGED <<text, chunk_size, chunk_overlap, lines, pos, current_chunk,
                   current_chunk_lines, chunk_metadata>>

-----------------------------------------------------------------------------
(* DocumentRetriever._expand_query                                         *)

\* the regular expressions of lines 33-53, in the order of the source
spanish_patterns ==
    <<"cap|tulo (\\d+)", "secci*n (\\d+)", "tema (\\d+)", "parte (\\d+)",
      "de qu@ trata", "qu@ dice", "qu@ contiene", "habla sobre", "menciona",
      "describe", "explica",
      "json example", "example request body", "python example", "code sample", "curl">>

\* the group  (\d+)  as it is written in a pattern
NumGroup == "(\\d+)"

\* re.search(literal + r'(\d+)', s) from position i on: the digits of the
\* leftmost match (the group), "" if there is no match
RECURSIVE SearchNum(_, _, _)
SearchNum(s, literal, i) ==
    IF i + Len(literal) > Len(s) THEN ""
    ELSE LET k  == i + Len(literal)
             de == RunEnd(s, k, Digits)
         IN  IF StartsAt(s, i, literal) /\ de >= k THEN SubSeq(s, k, de)
             ELSE SearchNum(s, literal, i + 1)

\* re.search(pattern, s) for the patterns above: [found, group]
ReSearch(pattern, s) ==
    LET g == FindFrom(pattern, NumGroup, 1)
    IN  IF g > 0
        THEN LET num == SearchNum(s, SubSeq(pattern, 1, g - 1), 1)
             IN  [found |-> num # "", group |-> num]
        ELSE [found |-> Contains(s, pattern), group |-> ""]

\* lines 61-67 without the last variant
ChapterVariantsWithoutTema(chapter_num) ==
    <<"cap|tulo " \o chapter_num, "chapter " \o chapter_num,
      "capitulo " \o chapter_num, "secci*n " \o chapter_num>>

\* lines 61-67
ChapterVariants(chapter_num) ==
    <<"cap|tulo " \o chapter_num, "chapter " \o chapter_num,
      "capitulo " \o chapter_num, "secci*n " \o chapter_num,
      "tema " \o chapter_num>>

\* lines 70-75
ContentVariants(q) ==
    <<Replace(q, "de qu@ trata", "qu@ contiene"), Replace(q, "de qu@ trata", "qu@ dice"),
      Replace(q, "qu@ dice", "de qu@ trata"), Replace(q, "qu@ contiene", "de qu@ trata")>>

\* lines 56-76: the variants of the first pattern, from the k-th on, that
\* matches the lower-cased query
RECURSIVE PatternVariants(_, _)
PatternVariants(q, k) ==
    IF k > Len(spanish_patterns) THEN <<>>
    ELSE LET pattern == spanish_patterns[k]
             match == ReSearch(pattern, Lower(q))
         IN  IF match.found
             THEN IF Contains(pattern, "cap|tulo") THEN ChapterVariants(match.group)
                  ELSE IF \E word \in {"trata", "dice", "contiene"} : Contains(pattern, word)
                  THEN ContentVariants(q)
                  ELSE <<>>
             ELSE PatternVariants(q, k + 1)

\* lines 79-85
ManualVariants(q) ==
    IF Contains(Lower(q), "manual")
    THEN <<"manual del conductor", "manual conductor", "driver manual", "manual">>
    ELSE <<>>

\* expanded_queries at line 86
ExpandedQueries(q) == <<q>> \o PatternVariants(q, 1) \o ManualVariants(q)

\* the loop of lines 88-93 with  q not in seen  in place of  q.lower() not in seen
RECURSIVE UniqueExact(_, _)
UniqueExact(qs, seen) ==
    IF qs = <<>> THEN <<>>
    ELSE IF Head(qs) \notin seen
    THEN <<Head(qs)>> \o UniqueExact(Tail(qs), seen \cup {Head(qs)})
    ELSE UniqueExact(Tail(qs), seen)

\* lines 88-93: the first occurrence of every query, compared in lower case
RECURSIVE Unique(_, _)
Unique(qs, seen) ==
    IF qs = <<>> THEN <<>>
    ELSE IF Lower(Head(qs)) \notin seen
    THEN <<Head(qs)>> \o Unique(Tail(qs), seen \cup {Lower(Head(qs))})
    ELSE Unique(Tail(qs), seen)

\* the limit of line 95
MaxQueries == 5

\* DocumentRetriever._expand_query
expand_query(q) ==
    LET u == Unique(ExpandedQueries(q), {})
    IN  SubSeq(u, 1, Min(MaxQueries, Len(u)))

MaxQueryPieces == 3

\* the pieces the queries are made of
QueryPieces ==
    {"cap|tulo 5", "cap|tulo 12", "Cap|tulo 5", "CAP&TULO 5", "7", " ", "secci*n 5",
     "tema", "parte 2", "de qu@ trata", "qu@ dice", "Manual", "x"}

\* _expand_query is not run
ExpandOff ==
    /\ unique_queries = <<>>
    /\ pc_expand = "off"

InitExpander ==
    /\ query \in {Concat(ps) : ps \in SeqsUpTo(QueryPieces, MaxQueryPieces)}
    /\ unique_queries = <<>>
    /\ pc_expand = "call"

ExpandQuery ==
    /\ pc_expand = "call"
    /\ unique_queries' = expand_query(query)
    /\ pc_expand' = "done"
    /\ UNCHANGED query

-----------------------------------------------------------------------------
(* The vector store                                                        *)

\* A score or a threshold is a whole number of hundred-thousandths: 30000 is
\* 0.3. The scores of the model are multiples of 10, so that a threshold that
\* binary64 arithmetic puts just below a multiple of 10000 is one unit below it.

\* the points a collection can hold
Points ==
    {[id |-> 1, content |-> "aa",   filename |-> "f.txt", chunk_index |-> 1,
      content_type |-> "txt"],
     [id |-> 2, content |-> "aa",   filename |-> "g.txt", chunk_index |-> 0,
      content_type |-> "txt"],
     [id |-> 3, content |-> "bbbb", filename |-> "f.txt", chunk_index |-> 0,
      content_type |-> "txt"],
     [id |-> 4, content |-> "cccccccccccc", filename |-> "h.txt", chunk_index |-> 0,
      content_type |-> "txt"]}

\* the scores a stored point can have for a query variant
Scores == {35040, 55000}

\* the positions of the query variants: the queries of the model have at most
\* two variants
VariantIdx == {1, 2}

\* client.search: the points scoring at least `threshold` for variant i, best
\* first (equal scores in the order of the ids), at most `n` of them
RECURSIVE BestFirst(_, _)
BestFirst(ps, i) ==
    IF ps = {} THEN <<>>
    ELSE LET best == CHOOSE p \in ps : \A q \in ps :
                        \/ sim[i][p] > sim[i][q]
                        \/ sim[i][p] = sim[i][q] /\ p.id <= q.id
         IN  <<[payload |-> best, score |-> sim[i][best]]>> \o BestFirst(ps \ {best}, i)

QdrantSearch(i, n, threshold) ==
    LET hits == BestFirst({p \in store : sim[i][p] >= threshold}, i)
    IN  SubSeq(hits, 1, Min(n, Len(hits)))

StoreOff ==
    /\ store = {}
    /\ sim = <<>>

InitStore ==
    /\ store \in SUBSET Points
    /\ sim \in [VariantIdx -> [store -> Scores]]

-----------------------------------------------------------------------------
(* DocumentRetriever.search_similar_documents                              *)

\* a - b in binary64 for the thresholds of the model: 0.3 - 0.1 is
\* 0.19999999999999998 and 0.3 - 0.2 is 0.09999999999999998, 0.15 - 0.1 is
\* 0.04999999999999999 and 0.15 - 0.2 is -0.05000000000000002, while 0.5 - 0.1
\* and 0.5 - 0.2 are 0.4 and 0.3
FloatSub(a, b) ==
    IF <<a, b>> \in {<<30000, 10000>>, <<30000, 20000>>, <<15000, 10000>>, <<15000, 20000>>}
    THEN a - b - 1
    ELSE a - b

\* line 130 with steps of 0.2
ThresholdsSteeper(t) == <<t, FloatSub(t, 20000), FloatSub(t, 40000)>>

\* line 130
Thresholds(t) == <<t, FloatSub(t, 10000), FloatSub(t, 20000)>>

\* line 134: the floor 0.1
ThresholdFloor == 10000

\* lines 153-156 taking two results for the same only if they are of one file
ContentExistsInFile(all, result) ==
    \E k \in 1..Len(all) :
        /\ all[k].content = result.payload.content
        /\ all[k].filename = result.payload.filename

\* lines 153-156
ContentExists(all, result) ==
    \E k \in 1..Len(all) : all[k].content = result.payload.content

\* lines 151-166: the results of one variant are added to all_results
RECURSIVE FormatResults(_, _, _)
FormatResults(all, results, search_query) ==
    IF results = <<>> THEN all
    ELSE LET result == Head(results)
             entry  == [content          |-> result.payload.content,
                        filename         |-> result.payload.filename,
                        chunk_index      |-> result.payload.chunk_index,
                        similarity_score |-> result.score,
                        content_type     |-> result.payload.content_type,
                        search_query     |-> search_query]
         IN  FormatResults(IF ContentExists(all, result) THEN all ELSE Append(all, entry),
                           Tail(results), search_query)

\* list.sort: a stable sort of records by their field `key`, smallest first
RECURSIVE InsertSorted(_, _)
InsertSorted(sorted, x) ==
    IF sorted = <<>> THEN <<x>>
    ELSE IF x.key < Head(sorted).key THEN <<x>> \o sorted
    ELSE <<Head(sorted)>> \o InsertSorted(Tail(sorted), x)

RECURSIVE StableSort(_)
StableSort(xs) ==
    IF xs = <<>> THEN <<>>
    ELSE InsertSorted(StableSort(SubSeq(xs, 1, Len(xs) - 1)), xs[Len(xs)])

\* line 169 without reverse=True: the lowest score first
SortByScoreAscending(all) ==
    LET keyed == [k \in 1..Len(all) |-> [key |-> all[k].similarity_score, doc |-> all[k]]]
        sorted == StableSort(keyed)
    IN  [k \in 1..Len(all) |-> sorted[k].doc]

\* line 169: all_results.sort(key=similarity_score, reverse=True)
SortByScore(all) ==
    LET keyed == [k \in 1..Len(all) |-> [key |-> 0 - all[k].similarity_score, doc |-> all[k]]]
        sorted == StableSort(keyed)
    IN  [k \in 1..Len(all) |-> sorted[k].doc]

\* lines 169-176
SortAndTruncate(all, n) ==
    LET sorted == SortByScore(all)
    IN  SubSeq(sorted, 1, Min(n, Len(sorted)))

\* lines 178-180 returning what had been found before the error
OnSearchErrorPartial(all, n) == SortAndTruncate(all, n)

\* lines 178-180: the list returned when anything in the try block raised
OnSearchError(all, n) == <<>>

-----------------------------------------------------------------------------
(* DocumentRetriever.get_context_for_query                                 *)

\* lines 223-228: the filenames in the order of their first result
RECURSIVE FileOrder(_, _)
FileOrder(docs, seen) ==
    IF docs = <<>> THEN <<>>
    ELSE IF Head(docs).filename \in seen THEN FileOrder(Tail(docs), seen)
    ELSE <<Head(docs).filename>> \o FileOrder(Tail(docs), seen \cup {Head(docs).filename})

\* line 233 left out: the results of one file in the order search gave them
FileDocsAsFound(docs, file) == SelectSeq(docs, LAMBDA d : d.filename = file)

\* line 233: the results of one file sorted by chunk_index
FileDocs(docs, file) ==
    LET mine   == SelectSeq(docs, LAMBDA d : d.filename = file)
        keyed  == [k \in 1..Len(mine) |-> [key |-> mine[k].chunk_index, doc |-> mine[k]]]
        sorted == StableSort(keyed)
    IN  [k \in 1..Len(mine) |-> sorted[k].doc]

\* line 235
DocumentHeader(file) == "\n[Document: " \o file \o "]\n"

\* line 239
ChunkText(doc) ==
    "Chunk " \o ToString(doc.chunk_index + 1) \o ": " \o doc.content \o "\n"

\* round(x, 3)
Round3(x) == ((x + 50) \div 100) * 100

\* str(x) of a float with at most three decimals
FormatScore(x) ==
    LET frac == (x % 100000) \div 100
        d1 == frac \div 100
        d2 == (frac \div 10) % 10
        d3 == frac % 10
    IN  ToString(x \div 100000) \o "." \o ToString(d1)
        \o (IF d2 # 0 \/ d3 # 0 THEN ToString(d2) ELSE "")
        \o (IF d3 # 0 THEN ToString(d3) ELSE "")

\* lines 249-255
Source(doc) ==
    [filename         |-> doc.filename,
     chunk_index      |-> doc.chunk_index,
     similarity_score |-> Round3(doc.similarity_score),
     content_type     |-> doc.content_type,
     search_query     |-> doc.search_query]

\* lines 237-255: the chunks of one file, from the k-th on; cst is
\* [context_parts, current_chars, sources]
RECURSIVE ChunkLoop(_, _, _, _, _)
ChunkLoop(file_docs, k, file_context, cst, budget) ==
    IF k > Len(file_docs) THEN [file_context |-> file_context, cst |-> cst]
    ELSE LET doc == file_docs[k]
             chunk_text == ChunkText(doc)
         IN  IF /\ cst.current_chars + Len(file_context) + Len(chunk_text) > budget
                /\ cst.context_parts # <<>>
             THEN [file_context |-> file_context, cst |-> cst]
             ELSE ChunkLoop(file_docs, k + 1, file_context \o chunk_text,
                            [cst EXCEPT !.current_chars = @ + Len(chunk_text),
                                        !.sources = Append(@, Source(doc))],
                            budget)

\* lines 231-257: the files, from the i-th on
RECURSIVE FileLoop(_, _, _, _, _)
FileLoop(files, i, docs, cst, budget) ==
    IF i > Len(files) THEN cst
    ELSE LET r == ChunkLoop(FileDocs(docs, files[i]), 1, DocumentHeader(files[i]), cst,
                            budget)
         IN  FileLoop(files, i + 1, docs,
                      [r.cst EXCEPT !.context_parts = Append(@, r.file_context)], budget)

\* sep.join(ls)
RECURSIVE Join(_, _)
Join(ls, sep) ==
    IF ls = <<>> THEN ""
    ELSE IF Len(ls) = 1 THEN ls[1]
    ELSE ls[1] \o sep \o Join(Tail(ls), sep)

\* lines 260-266
SimilarityScores(sources) ==
    IF sources # <<>>
    THEN "Similarity scores: "
         \o Join([k \in 1..Min(5, Len(sources)) |->
                    sources[k].filename \o " ("
                    \o FormatScore(sources[k].similarity_score) \o ")"], ", ")
    ELSE "No relevant sources found"

\* lines 210-215
EmptyBundle ==
    [context |-> "", context_count |-> 0, similarity_scores |-> "", sources |-> <<>>]

\* lines 209-273: the bundle get_context_for_query makes of the search results
BuildContext(relevant_docs, budget) ==
    IF relevant_docs = <<>> THEN EmptyBundle
    ELSE LET cst == FileLoop(FileOrder(relevant_docs, {}), 1, relevant_docs,
                             [context_parts |-> <<>>, current_chars |-> 0,
                              sources |-> <<>>], budget)
         IN  [context           |-> Join(cst.context_parts, "\n"),
              context_count     |-> Len(cst.sources),
              similarity_scores |-> SimilarityScores(cst.sources),
              sources           |-> cst.sources]

-----------------------------------------------------------------------------
(* One call of search_similar_documents or get_context_for_query           *)

MaxLimit == 2

MaxChunks == 2

\* the queries of the calls: one without variants and one with one variant
SearchQueries == {"x", "qu@ dice"}

\* the values of score_threshold: 0.15, the default of get_context_for_query,
\* 0.3 and 0.5
ThresholdValues == {15000, 30000, 50000}

SearchOff ==
    /\ caller = "none"
    /\ limit = 0
    /\ score_threshold = 0
    /\ use_query_expansion = FALSE
    /\ max_chunks = 0
    /\ max_chars = 0
    /\ queries = <<>>
    /\ qi = 0
    /\ ti = 0
    /\ all_results = <<>>
    /\ final_results = <<>>
    /\ search_error = FALSE
    /\ bundle = EmptyBundle
    /\ searches = <<>>
    /\ pc_search = "idle"

\* POST /search: search_similar_documents is called
CallSearch ==
    /\ pc_search = "idle"
    /\ caller' = "search"
    /\ query' \in SearchQueries
    /\ limit' \in 1..MaxLimit
    /\ score_threshold' \in ThresholdValues
    /\ use_query_expansion' \in BOOLEAN
    /\ pc_search' = "client"
    /\ UNCHANGED <<max_chunks, max_chars, queries, qi, ti, all_results, final_results,
                   search_error, bundle, searches>>

\* get_context_for_query is called, and calls search_similar_documents
\* (lines 202-207)
CallGetContext ==
    /\ pc_search = "idle"
    /\ caller' = "get_context"
    /\ query' \in SearchQueries
    /\ max_chunks' \in 1..MaxChunks
    /\ max_chars' \in {30, 50, 6000}
    /\ score_threshold' \in ThresholdValues
    /\ limit' = max_chunks' * 2
    /\ use_query_expansion' = TRUE
    /\ pc_search' = "client"
    /\ UNCHANGED <<queries, qi, ti, all_results, final_results, search_error, bundle,
                   searches>>

\* lines 178-180: an exception inside the try block
SearchRaises ==
    /\ final_results' = OnSearchError(all_results, limit)
    /\ search_error' = TRUE
    /\ pc_search' = "returned"
    /\ UNCHANGED <<query, caller, limit, score_threshold, use_query_expansion, max_chunks,
                   max_chars, queries, qi, ti, all_results, bundle>>

\* lines 117-121: get_qdrant() returns the client
SearchBegin ==
    /\ pc_search = "client"
    /\ queries' = IF use_query_expansion THEN expand_query(query) ELSE <<query>>
    /\ qi' = 1
    /\ pc_search' = "embed"
    /\ UNCHANGED <<query, caller, limit, score_threshold, use_query_expansion, max_chunks,
                   max_chars, ti, all_results, final_results, search_error, bundle,
                   searches>>

\* line 117: get_qdrant() raises
ClientFail ==
    /\ pc_search = "client"
    /\ SearchRaises
    /\ UNCHANGED searches

\* line 127: the embedding of the variant is returned
Embed ==
    /\ pc_search = "embed"
    /\ ti' = 1
    /\ pc_search' = "search"
    /\ UNCHANGED <<query, caller, limit, score_threshold, use_query_expansion, max_chunks,
                   max_chars, queries, qi, all_results, final_results, search_error,
                   bundle, searches>>

\* line 127: the embedding provider raises
EmbedFail ==
    /\ pc_search = "embed"
    /\ SearchRaises
    /\ UNCHANGED searches

\* the loop of line 133 has a search to make
SearchDue ==
    /\ pc_search = "search"
    /\ ti <= Len(Thresholds(score_threshold))
    /\ ~(Thresholds(score_threshold)[ti] < ThresholdFloor)

\* lines 150-176 for the variant at qi, whose search returned `results`: they
\* are added to all_results, and the next variant is taken or, after the last,
\* the sorted list is returned
VariantDone(results) ==
    LET all == FormatResults(all_results, results, queries[qi])
    IN  /\ all_results' = all
        /\ IF qi < Len(queries)
           THEN /\ qi' = qi + 1
                /\ pc_search' = "embed"
                /\ UNCHANGED final_results
           ELSE /\ qi' = qi
                /\ pc_search' = "returned"
                /\ final_results' = SortAndTruncate(all, limit)
        /\ UNCHANGED <<query, caller, limit, score_threshold, use_query_expansion,
                       max_chunks, max_chars, queries, search_error, bundle>>

\* lines 137-143: client.search is called for the variant at qi with the
\* threshold at ti
SearchCall(outcome) ==
    searches' = Append(searches, [variant   |-> qi,
                                  threshold |-> Thresholds(score_threshold)[ti],
                                  outcome   |-> outcome])

\* lines 137-148: client.search returns results
StoreSearchHit ==
    /\ SearchDue
    /\ QdrantSearch(qi, limit, Thresholds(score_threshold)[ti]) # <<>>
    /\ SearchCall("results")
    /\ ti' = ti
    /\ VariantDone(QdrantSearch(qi, limit, Thresholds(score_threshold)[ti]))

\* lines 133-148: client.search returns nothing; the next threshold is tried,
\* unless it was the last or the next is under the floor
StoreSearchMiss ==
    /\ SearchDue
    /\ QdrantSearch(qi, limit, Thresholds(score_threshold)[ti]) = <<>>
    /\ SearchCall("nothing")
    /\ IF /\ ti < Len(Thresholds(score_threshold))
          /\ ~(Thresholds(score_threshold)[ti + 1] < ThresholdFloor)
       THEN /\ ti' = ti + 1
            /\ UNCHANGED <<query, caller, limit, score_threshold, use_query_expansion,
                           max_chunks, max_chars, queries, qi, all_results, final_results,
                           search_error, bundle, pc_search>>
       ELSE /\ ti' = ti
            /\ VariantDone(<<>>)

\* lines 137-143: client.search raises
StoreSearchFail ==
    /\ SearchDue
    /\ SearchCall("raised")
    /\ SearchRaises

\* lines 209-273: get_context_for_query returns the bundle
GetContextReturn ==
    /\ pc_search = "returned"
    /\ caller = "get_context"
    /\ bundle' = BuildContext(final_results, max_chars)
    /\ pc_search' = "done"
    /\ UNCHANGED <<query, caller, limit, score_threshold, use_query_expansion, max_chunks,
                   max_chars, queries, qi, ti, all_results, final_results, search_error,
                   searches>>

-----------------------------------------------------------------------------
(* DocumentIngestor.upload_to_qdrant                                       *)

\* line 260
SUPPORTED_EXTS ==
    <<".pdf", ".txt", ".md", ".py", ".js", ".ts", ".tsx", ".json", ".csv", ".sql",
      ".html", ".css", ".yaml", ".yml", ".java">>

\* the index of the last "." of s at or before i, 0 if there is none
RECURSIVE LastDot(_, _)
LastDot(s, i) ==
    IF i < 1 THEN 0
    ELSE IF At(s, i) = "." THEN i
    ELSE LastDot(s, i - 1)

\* line 257: os.path.splitext(name)[1].lower() of a name without directories;
\* the extension is the suffix from the last dot, unless only dots precede it
FileExt(name) ==
    LET d == LastDot(name, Len(name))
    IN  IF d > 0 /\ \E k \in 1..(d - 1) : At(name, k) # "."
        THEN Lower(From(name, d))
        ELSE ""

\* tempfile.NamedTemporaryFile(delete=False, suffix=file_ext).name
TempName(ext) == "/tmp/tmp0" \o ext

\* hashlib.md5(b).hexdigest(): a value that depends on the bytes only
Md5(b) == <<"md5", b>>

NoError == [status |-> 0, detail |-> ""]

NoResponse == [status |-> 0]

HTTPException(status_code, detail) == [status |-> status_code, detail |-> detail]

\* lines 301-305
RECURSIVE CleanedDocuments(_)
CleanedDocuments(docs) ==
    IF docs = <<>> THEN <<>>
    ELSE LET cleaned_text == clean_pdf_text(Head(docs))
         IN  (IF cleaned_text # "" THEN <<cleaned_text>> ELSE <<>>)
             \o CleanedDocuments(Tail(docs))

\* lines 316-319
RECURSIVE AllChunks(_, _)
AllChunks(docs, size) ==
    IF docs = <<>> THEN <<>>
    ELSE split_text(Head(docs), size) \o AllChunks(Tail(docs), size)

\* s.lstrip('.')
RECURSIVE LStripDots(_)
LStripDots(s) == IF s # "" /\ At(s, 1) = "." THEN LStripDots(From(s, 2)) ELSE s

\* lines 336-347: payload.update(chunk["metadata"]) when the metadata is not {}
Payload(chunk, i, total, name, hash) ==
    LET payload == [content      |-> chunk.content,
                    filename     |-> name,
                    chunk_index  |-> i,
                    total_chunks |-> total,
                    file_hash    |-> hash,
                    content_type |-> LStripDots(FileExt(name))]
    IN  IF chunk.metadata # EmptyDict THEN chunk.metadata @@ payload ELSE payload

\* lines 331-355 with a chunk_index that counts from 1
MakePointsFromOne(cs, name, hash, first_id) ==
    [k \in 1..Len(cs) |->
        [id      |-> first_id + k,
         payload |-> Payload(cs[k], k, Len(cs), name, hash)]]

\* lines 324-355: one point per pair of chunk and embedding, get_embeddings
\* returning one embedding per text; the ids are new
MakePoints(cs, name, hash, first_id) ==
    [k \in 1..Len(cs) |->
        [id      |-> first_id + k,
         payload |-> Payload(cs[k], k - 1, Len(cs), name, hash)]]

\* lines 374-379: what the except clause raises for the exception e
ExceptionWrapped(e) ==
    [status |-> 500, detail |-> "Error processing document", cause |-> e.detail]

\* the names of the uploads
Filenames == {"a.txt", "b.PDF", "c.exe", "notes"}

\* the bytes of the uploads, and the texts a PDF yields
Contents == {"", " \n ", "12", "ab", "one Tema 1 two Tema 2 three four"}

\* the documents PDFLoader can return
MaxPdfDocuments == 2

\* the collection holds the points of other files
OtherPoints ==
    {[id |-> 0, payload |-> [content |-> "zz", filename |-> "old.txt", chunk_index |-> 0,
                             total_chunks |-> 1, file_hash |-> Md5("zz"),
                             content_type |-> "txt"]]}

\* the highest id in use
MaxId(ps) == IF ps = {} THEN 0 ELSE CHOOSE n \in {p.id : p \in ps} : \A p \in ps : p.id <= n

IngestOff ==
    /\ filename = ""
    /\ file_content = ""
    /\ temp_file_path = None
    /\ temp_files = {}
    /\ documents = <<>>
    /\ cleaned_documents = <<>>
    /\ all_chunks = <<>>
    /\ points = <<>>
    /\ collection = {}
    /\ error = NoError
    /\ returned = NoResponse
    /\ response = NoResponse
    /\ pc_ingest = "off"

\* the ingestor is constructed (lines 237-246) and upload_to_qdrant is called
InitIngestor ==
    /\ filename \in Filenames
    /\ file_content \in Contents
    /\ temp_file_path = None
    /\ temp_files = {}
    /\ documents = <<>>
    /\ cleaned_documents = <<>>
    /\ all_chunks = <<>>
    /\ points = <<>>
    /\ collection \in SUBSET OtherPoints
    /\ error = NoError
    /\ returned = NoResponse
    /\ response = NoResponse
    /\ pc_ingest = "start"

\* the splitter of the ingestor: only its chunk_size is used
IngestorSplitter ==
    /\ text = ""
    /\ chunk_size \in ChunkSizes
    /\ chunk_overlap = 300
    /\ lines = <<>>
    /\ pos = 1
    /\ current_chunk = ""
    /\ current_chunk_lines = <<>>
    /\ chunk_metadata = EmptyDict
    /\ chunks = <<>>
    /\ last_split = "none"
    /\ pc_split = "off"

\* an exception is raised inside the try block of line 272
RaiseInTry(e) ==
    /\ error' = e
    /\ pc_ingest' = "except"

\* lines 264-267
UnsupportedFileType(file_ext) ==
    HTTPException(400, "Unsupported file type '" \o file_ext \o "'. Supported: "
                       \o Join(SUPPORTED_EXTS, ", "))

\* lines 263-269 as if inside the try block of line 272
RejectExtensionInTry ==
    /\ pc_ingest = "start"
    /\ FileExt(filename) \notin Range(SUPPORTED_EXTS)
    /\ RaiseInTry(UnsupportedFileType(FileExt(filename)))
    /\ UNCHANGED <<filename, file_content, temp_file_path, temp_files, documents,
                   cleaned_documents, all_chunks, points, collection, returned, response>>

\* lines 263-269: the extension is not supported; raised before the try block
RejectExtension ==
    /\ pc_ingest = "start"
    /\ FileExt(filename) \notin Range(SUPPORTED_EXTS)
    /\ response' = UnsupportedFileType(FileExt(filename))
    /\ pc_ingest' = "done"
    /\ UNCHANGED <<filename, file_content, temp_file_path, temp_files, documents,
                   cleaned_documents, all_chunks, points, collection, error, returned>>

\* line 274: the temporary file is created
CreateTemp ==
    /\ pc_ingest = "start"
    /\ FileExt(filename) \in Range(SUPPORTED_EXTS)
    /\ temp_files' = temp_files \cup {TempName(FileExt(filename))}
    /\ pc_ingest' = "read"
    /\ UNCHANGED <<filename, file_content, temp_file_path, documents, cleaned_documents,
                   all_chunks, points, collection, error, returned, response>>

\* line 274: the temporary file cannot be created
CreateTempFail ==
    /\ pc_ingest = "start"
    /\ FileExt(filename) \in Range(SUPPORTED_EXTS)
    /\ RaiseInTry(HTTPException(0, "NamedTemporaryFile"))
    /\ UNCHANGED <<filename, file_content, temp_file_path, temp_files, documents,
                   cleaned_documents, all_chunks, points, collection, returned, response>>

\* line 276: file.read() returns the bytes
ReadUpload ==
    /\ pc_ingest = "read"
    /\ pc_ingest' = "write"
    /\ UNCHANGED <<filename, file_content, temp_file_path, temp_files, documents,
                   cleaned_documents, all_chunks, points, collection, error, returned,
                   response>>

\* line 276: file.read() raises; the with block closes the file, which was
\* created with delete=False
ReadUploadFail ==
    /\ pc_ingest = "read"
    /\ RaiseInTry(HTTPException(0, "file.read"))
    /\ UNCHANGED <<filename, file_content, temp_file_path, temp_files, documents,
                   cleaned_documents, all_chunks, points, collection, returned, response>>

\* lines 277-278: the bytes are written and the path is kept
WriteTemp ==
    /\ pc_ingest = "write"
    /\ temp_file_path' = TempName(FileExt(filename))
    /\ pc_ingest' = "extract"
    /\ UNCHANGED <<filename, file_content, temp_files, documents, cleaned_documents,
                   all_chunks, points, collection, error, returned, response>>

\* line 277: tmp_file.write raises
WriteTempFail ==
    /\ pc_ingest = "write"
    /\ RaiseInTry(HTTPException(0, "tmp_file.write"))
    /\ UNCHANGED <<filename, file_content, temp_file_path, temp_files, documents,
                   cleaned_documents, all_chunks, points, collection, returned, response>>

\* lines 282-285: PDFLoader returns the documents of the file
LoadPdf ==
    /\ pc_ingest = "extract"
    /\ FileExt(filename) = ".pdf"
    /\ documents' \in SeqsUpTo(Contents, MaxPdfDocuments)
    /\ pc_ingest' = "extracted"
    /\ UNCHANGED <<filename, file_content, temp_file_path, temp_files, cleaned_documents,
                   all_chunks, points, collection, error, returned, response>>

\* lines 286-290: the text of the temporary file is the one document
ReadText ==
    /\ pc_ingest = "extract"
    /\ FileExt(filename) # ".pdf"
    /\ documents' = <<file_content>>
    /\ pc_ingest' = "extracted"
    /\ UNCHANGED <<filename, file_content, temp_file_path, temp_files, cleaned_documents,
                   all_chunks, points, collection, error, returned, response>>

\* lines 282-290: PDFLoader or open raises
ExtractFail ==
    /\ pc_ingest = "extract"
    /\ RaiseInTry(HTTPException(0, "extract"))
    /\ UNCHANGED <<filename, file_content, temp_file_path, temp_files, documents,
                   cleaned_documents, all_chunks, points, collection, returned, response>>

\* lines 292-296
NoDocuments ==
    /\ pc_ingest = "extracted"
    /\ documents = <<>>
    /\ RaiseInTry(HTTPException(400, "No text could be extracted from the file"))
    /\ UNCHANGED <<filename, file_content, temp_file_path, temp_files, documents,
                   cleaned_documents, all_chunks, points, collection, returned, response>>

\* lines 300-305
CleanDocuments ==
    /\ pc_ingest = "extracted"
    /\ documents # <<>>
    /\ cleaned_documents' = CleanedDocuments(documents)
    /\ pc_ingest' = "cleaned"
    /\ UNCHANGED <<filename, file_content, temp_file_path, temp_files, documents,
                   all_chunks, points, collection, error, returned, response>>

\* lines 307-311
NoUsableDocuments ==
    /\ pc_ingest = "cleaned"
    /\ cleaned_documents = <<>>
    /\ RaiseInTry(HTTPException(
           400, "No usable text could be extracted from the file after cleaning"))
    /\ UNCHANGED <<filename, file_content, temp_file_path, temp_files, documents,
                   cleaned_documents, all_chunks, points, collection, returned, response>>

\* lines 315-319
ChunkDocuments ==
    /\ pc_ingest = "cleaned"
    /\ cleaned_documents # <<>>
    /\ all_chunks' = AllChunks(cleaned_documents, chunk_size)
    /\ pc_ingest' = "embed"
    /\ UNCHANGED <<filename, file_content, temp_file_path, temp_files, documents,
                   cleaned_documents, points, collection, error, returned, response>>

\* lines 323-355: the embeddings are returned and the points are built
EmbedChunks ==
    /\ pc_ingest = "embed"
    /\ points' = MakePoints(all_chunks, filename, Md5(file_content), MaxId(collection))
    /\ pc_ingest' = "upsert"
    /\ UNCHANGED <<filename, file_content, temp_file_path, temp_files, documents,
                   cleaned_documents, all_chunks, collection, error, returned, response>>

\* the chunks embedded and upserted one by one, the provider raising at the last
EmbedChunksFailAfterUpserts ==
    /\ pc_ingest = "embed"
    /\ RaiseInTry(HTTPException(0, "get_embeddings"))
    /\ LET ps == MakePoints(all_chunks, filename, Md5(file_content), MaxId(collection))
       IN  collection' = collection \cup Range(SubSeq(ps, 1, Len(ps) - 1))
    /\ UNCHANGED <<filename, file_content, temp_file_path, temp_files, documents,
                   cleaned_documents, all_chunks, points, returned, response>>

\* line 325: the embedding provider raises
EmbedChunksFail ==
    /\ pc_ingest = "embed"
    /\ RaiseInTry(HTTPException(0, "get_embeddings"))
    /\ UNCHANGED <<filename, file_content, temp_file_path, temp_files, documents,
                   cleaned_documents, all_chunks, points, collection, returned, response>>

\* lines 357-372: the points are upserted and the result is returned
Upsert ==
    /\ pc_ingest = "upsert"
    /\ collection' = collection \cup Range(points)
    /\ returned' = [status         |-> 200,
                  filename       |-> filename,
                  chunks_created |-> Len(all_chunks),
                  vectors_stored |-> Len(points),
                  file_hash      |-> Md5(file_content),
                  collection     |-> "knowledge_base"]
    /\ pc_ingest' = "finally"
    /\ UNCHANGED <<filename, file_content, temp_file_path, temp_files, documents,
                   cleaned_documents, all_chunks, points, error, response>>

\* lines 358-362: get_qdrant or client.upsert raises
UpsertFail ==
    /\ pc_ingest = "upsert"
    /\ RaiseInTry(HTTPException(0, "upsert"))
    /\ UNCHANGED <<filename, file_content, temp_file_path, temp_files, documents,
                   cleaned_documents, all_chunks, points, collection, returned, response>>

\* lines 374-379: every exception raised in the try block is an Exception
ExceptHandler ==
    /\ pc_ingest = "except"
    /\ error' = ExceptionWrapped(error)
    /\ pc_ingest' = "finally"
    /\ UNCHANGED <<filename, file_content, temp_file_path, temp_files, documents,
                   cleaned_documents, all_chunks, points, collection, returned, response>>

\* the call ends: the exception in flight, or else the return value, goes to the caller
Leave ==
    /\ response' = IF error # NoError THEN error ELSE returned
    /\ pc_ingest' = "done"
    /\ UNCHANGED <<filename, file_content, temp_file_path, documents, cleaned_documents,
                   all_chunks, points, collection, error, returned>>

\* line 382
MustUnlink == temp_file_path # None /\ temp_file_path \in temp_files

\* lines 380-385: the temporary file is removed
FinallyUnlink ==
    /\ pc_ingest = "finally"
    /\ MustUnlink
    /\ temp_files' = temp_files \ {temp_file_path}
    /\ Leave

\* lines 380-387: os.unlink raises, which is logged
FinallyUnlinkFail ==
    /\ pc_ingest = "finally"
    /\ MustUnlink
    /\ temp_files' = temp_files
    /\ Leave

\* lines 380-382: there is no path to remove
FinallySkip ==
    /\ pc_ingest = "finally"
    /\ ~MustUnlink
    /\ temp_files' = temp_files
    /\ Leave

(***************************************************************************)
(* upload_knowledge: the requests of POST /upload, served concurrently     *)
(***************************************************************************)

\* the requests in flight
MaxRequests == 2

Requests == 1..MaxRequests

\* the names and the bytes of the uploads of the route
UploadNames == {"a.txt", "b.txt", "c.exe"}

UploadContents == {"ab", " \n "}

\* str(uuid.uuid4()) of line 334: a new id for every chunk of every call;
\* the id keeps the call it was made in and the position of the chunk
Uuid4(r, k) == <<r, k>>

\* the points a collection holds before the requests arrive: one file,
\* indexed by an earlier call
EarlierPoints ==
    {[id      |-> Uuid4(0, 1),
      payload |-> Payload([content |-> "zz", metadata |-> EmptyDict], 0, 1, "a.txt",
                          Md5("zz"))]}

\* client.scroll with a filter on the payload field filename
ScrollFilter(ps, name) == {p \in ps : p.payload.filename = name}

\* ingest.py, lines 286-355 for a text file: the points of the upload
UploadPoints(r, name, content, size) ==
    LET cs == AllChunks(CleanedDocuments(<<content>>), size)
        ps == MakePoints(cs, name, Md5(content), 0)
    IN  {[id |-> Uuid4(r, ps[k].id), payload |-> ps[k].payload] : k \in 1..Len(ps)}

\* knowledge.py, lines 66-75
InternalServerError == HTTPException(500, "Internal server error processing document")

\* ingest.py, lines 374-379
ErrorProcessingDocument == HTTPException(500, "Error processing document")

UploadOff ==
    /\ kb_points = {}
    /\ upload = <<>>

\* the requests have arrived, none has run
InitUploads ==
    /\ kb_points \in {{}, EarlierPoints}
    /\ upload \in [Requests -> [filename : UploadNames, content : UploadContents,
                                points : {{}}, response : {NoResponse}, pc : {"start"}]]

\* knowledge.py, lines 35-56: a point with the filename exists
UploadExists(r) ==
    /\ upload[r].pc = "start"
    /\ ScrollFilter(kb_points, upload[r].filename) # {}
    /\ upload' = [upload EXCEPT ![r].pc = "done",
                                ![r].response = [status   |-> 201,
                                                 detail   |-> "File already exists",
                                                 filename |-> upload[r].filename,
                                                 exists   |-> TRUE]]
    /\ UNCHANGED kb_points

\* knowledge.py, lines 35-58: no point has the filename, upload_to_qdrant is called
UploadAbsent(r) ==
    /\ upload[r].pc = "start"
    /\ ScrollFilter(kb_points, upload[r].filename) = {}
    /\ upload' = [upload EXCEPT ![r].pc = "ingest"]
    /\ UNCHANGED kb_points

\* knowledge.py, lines 31-48 and 69-75: get_qdrant or client.scroll raises
UploadScrollFail(r) ==
    /\ upload[r].pc = "start"
    /\ upload' = [upload EXCEPT ![r].pc = "done", ![r].response = InternalServerError]
    /\ UNCHANGED kb_points

\* ingest.py, lines 257-269, and knowledge.py, lines 66-68
UploadReject(r) ==
    /\ upload[r].pc = "ingest"
    /\ FileExt(upload[r].filename) \notin Range(SUPPORTED_EXTS)
    /\ upload' = [upload EXCEPT ![r].pc = "done",
                                ![r].response =
                                    UnsupportedFileType(FileExt(upload[r].filename))]
    /\ UNCHANGED kb_points

\* ingest.py, lines 272-276: the coroutine waits for file.read()
UploadAwaitRead(r) ==
    /\ upload[r].pc = "ingest"
    /\ FileExt(upload[r].filename) \in Range(SUPPORTED_EXTS)
    /\ upload' = [upload EXCEPT ![r].pc = "read"]
    /\ UNCHANGED kb_points

\* ingest.py, lines 276-355: the text is read, cleaned, split and embedded
UploadBuild(r) ==
    /\ upload[r].pc = "read"
    /\ CleanedDocuments(<<upload[r].content>>) # <<>>
    /\ upload' = [upload EXCEPT ![r].pc = "upsert",
                                ![r].points = UploadPoints(r, upload[r].filename,
                                                           upload[r].content, chunk_size)]
    /\ UNCHANGED kb_points

\* ingest.py, lines 276-355 and 374-379: a step raises (the 400 of lines
\* 307-311 when nothing is left after cleaning, or a failure of the file
\* system or of the embedding provider)
UploadBuildFail(r) ==
    /\ upload[r].pc = "read"
    /\ upload' = [upload EXCEPT ![r].pc = "done", ![r].response = ErrorProcessingDocument]
    /\ UNCHANGED kb_points

\* ingest.py, lines 357-372, and knowledge.py, lines 58-64
UploadUpsert(r) ==
    /\ upload[r].pc = "upsert"
    /\ kb_points' = kb_points \cup upload[r].points
    /\ upload' = [upload EXCEPT ![r].pc = "done",
                                ![r].response = [status   |-> 201,
                                                 detail   |-> "Document indexed successfully",
                                                 filename |-> upload[r].filename,
                                                 exists   |-> FALSE]]

\* ingest.py, lines 358-362 and 374-379: get_qdrant or client.upsert raises
UploadUpsertFail(r) ==
    /\ upload[r].pc = "upsert"
    /\ upload' = [upload EXCEPT ![r].pc = "done", ![r].response = ErrorProcessingDocument]
    /\ UNCHANGED kb_points

(***************************************************************************)
(* delete_file: the calls of DELETE /files/{filename}, one after the other *)
(***************************************************************************)

\* limit of client.scroll
ScrollLimit == 100

\* the pages a file's points fill
MaxPages == 2

\* the calls of delete_file
MaxDeleteCalls == 2

\* the numbers of points a file has
PointCounts == {0, 1, ScrollLimit, ScrollLimit + 1, MaxPages * ScrollLimit + 1}

DeleteNames == {"a.txt", "b.txt", "none.txt"}

\* the points of the n chunks of a file, indexed by the call c
IndexedPoints(c, name, n) ==
    {[id      |-> Uuid4(c, k),
      payload |-> Payload([content |-> "zz", metadata |-> EmptyDict], k - 1, n, name,
                          Md5("zz"))] : k \in 1..n}

\* the order of the point ids, in which scroll returns the points
IdLess(a, b) == a[1] < b[1] \/ (a[1] = b[1] /\ a[2] < b[2])

\* the ids of ps that scroll still has to return from the offset on
IdsFrom(ps, from) == {p.id : p \in {q \in ps : from = None \/ ~IdLess(q.id, from)}}

\* the first n of the ids, in their order
FirstIds(ids, n) ==
    LET before == [i \in ids |-> Cardinality({j \in ids : IdLess(j, i)})]
    IN  [k \in 1..Min(n, Cardinality(ids)) |-> CHOOSE i \in ids : before[i] = k - 1]

\* client.scroll(scroll_filter, limit, offset, with_payload=False): the ids of
\* the page and the id the next page starts at, None when there is none
ScrollPage(ps, name, n, from) ==
    LET ids  == IdsFrom(ScrollFilter(ps, name), from)
        page == FirstIds(ids, n)
        rest == ids \ Range(page)
    IN  [points      |-> page,
         next_offset |-> IF rest = {} THEN None
                         ELSE CHOOSE i \in rest : \A j \in rest : ~IdLess(j, i)]

DeleteOff ==
    /\ delete_filename = ""
    /\ points_to_delete = <<>>
    /\ offset = None
    /\ delete_response = NoResponse
    /\ kb_before = {}
    /\ delete_calls = 0
    /\ pc_delete = "off"

\* the collection holds the points of up to two files
InitDeletes ==
    /\ \E n \in PointCounts, m \in {0, 1} :
           kb_points = IndexedPoints(1, "a.txt", n) \cup IndexedPoints(2, "b.txt", m)
    /\ delete_filename = ""
    /\ points_to_delete = <<>>
    /\ offset = None
    /\ delete_response = NoResponse
    /\ kb_before = kb_points
    /\ delete_calls = 0
    /\ pc_delete = "idle"

\* knowledge.py, lines 221-235
CallDelete ==
    /\ pc_delete \in {"idle", "done"}
    /\ delete_calls < MaxDeleteCalls
    /\ delete_calls' = delete_calls + 1
    /\ delete_filename' \in DeleteNames
    /\ points_to_delete' = <<>>
    /\ offset' = None
    /\ delete_response' = NoResponse
    /\ kb_before' = kb_points
    /\ pc_delete' = "scroll"
    /\ UNCHANGED kb_points

\* lines 237-256: the page is empty
ScrollEmpty ==
    /\ pc_delete = "scroll"
    /\ ScrollPage(kb_points, delete_filename, ScrollLimit, offset).points = <<>>
    /\ pc_delete' = "scrolled"
    /\ UNCHANGED <<kb_points, delete_filename, points_to_delete, offset, delete_response,
                   kb_before, delete_calls>>

\* lines 237-261: the page is the last one
ScrollLast ==
    LET page == ScrollPage(kb_points, delete_filename, ScrollLimit, offset)
    IN  /\ pc_delete = "scroll"
        /\ page.points # <<>>
        /\ page.next_offset = None
        /\ points_to_delete' = points_to_delete \o page.points
        /\ pc_delete' = "scrolled"
        /\ UNCHANGED <<kb_points, delete_filename, offset, delete_response, kb_before,
                       delete_calls>>

\* lines 237-263 where the loop is left after the first page
ScrollMoreOnce ==
    LET page == ScrollPage(kb_points, delete_filename, ScrollLimit, offset)
    IN  /\ pc_delete = "scroll"
        /\ page.points # <<>>
        /\ page.next_offset # None
        /\ points_to_delete' = points_to_delete \o page.points
        /\ offset' = page.next_offset
        /\ pc_delete' = "scrolled"
        /\ UNCHANGED <<kb_points, delete_filename, delete_response, kb_before,
                       delete_calls>>

\* lines 237-263: another page follows
ScrollMore ==
    LET page == ScrollPage(kb_points, delete_filename, ScrollLimit, offset)
    IN  /\ pc_delete = "scroll"
        /\ page.points # <<>>
        /\ page.next_offset # None
        /\ points_to_delete' = points_to_delete \o page.points
        /\ offset' = page.next_offset
        /\ UNCHANGED <<kb_points, delete_filename, delete_response, kb_before,
                       delete_calls, pc_delete>>

\* lines 231-250 and 285-291: get_qdrant or client.scroll raises
ScrollFail ==
    /\ pc_delete = "scroll"
    /\ delete_response' = HTTPException(500, "Error deleting file")
    /\ pc_delete' = "done"
    /\ UNCHANGED <<kb_points, delete_filename, points_to_delete, offset, kb_before,
                   delete_calls>>

\* lines 265-269 and 283-284
DeleteNotFound ==
    /\ pc_delete = "scrolled"
    /\ points_to_delete = <<>>
    /\ delete_response' = HTTPException(
           404, "File '" \o delete_filename \o "' not found in knowledge base")
    /\ pc_delete' = "done"
    /\ UNCHANGED <<kb_points, delete_filename, points_to_delete, offset, kb_before,
                   delete_calls>>

\* lines 271-281
DeletePoints ==
    /\ pc_delete = "scrolled"
    /\ points_to_delete # <<>>
    /\ kb_points' = {p \in kb_points : p.id \notin Range(points_to_delete)}
    /\ delete_response' = [status         |-> 200,
                           detail         |-> "File deleted successfully",
                           filename       |-> delete_filename,
                           chunks_deleted |-> Len(points_to_delete)]
    /\ pc_delete' = "done"
    /\ UNCHANGED <<delete_filename, points_to_delete, offset, kb_before, delete_calls>>

\* lines 271-275 and 285-291: client.delete raises
DeleteFail ==
    /\ pc_delete = "scrolled"
    /\ points_to_delete # <<>>
    /\ delete_response' = HTTPException(500, "Error deleting file")
    /\ pc_delete' = "done"
    /\ UNCHANGED <<kb_points, delete_filename, points_to_delete, offset, kb_before,
                   delete_calls>>

(***************************************************************************)
(* overwrite_file: one call of POST /files/{filename}/overwrite            *)
(***************************************************************************)

\* knowledge.py, lines 313-318
ErrorOverwritingFile == HTTPException(500, "Error overwriting file")

\* the numbers of points the file a.txt has when the call arrives
OverwritePointCounts == {0, 1, ScrollLimit + 1}

\* overwrite_file is not run
OverwriteOff == overwrite = [pc |-> "off"]

\* the collection holds the points of up to two files, indexed by the calls 1
\* and 2, and overwrite_file is called with a filename and an upload
InitOverwrites ==
    /\ \E n \in OverwritePointCounts, m \in {0, 1} :
           kb_points = IndexedPoints(1, "a.txt", n) \cup IndexedPoints(2, "b.txt", m)
    /\ overwrite \in [filename : DeleteNames,
                      file     : [filename : UploadNames, content : UploadContents],
                      points   : {{}},
                      response : {NoResponse},
                      pc       : {"start"}]
    /\ delete_filename = ""
    /\ points_to_delete = <<>>
    /\ offset = None
    /\ delete_response = NoResponse
    /\ kb_before = kb_points
    /\ delete_calls = 0
    /\ pc_delete = "idle"

\* knowledge.py, lines 301-303: delete_file(filename) is called
OverwriteCallDelete ==
    /\ overwrite.pc = "start"
    /\ CallDelete
    /\ delete_filename' = overwrite.filename
    /\ overwrite' = [overwrite EXCEPT !.pc = "delete"]

\* delete_file has returned to overwrite_file
DeleteReturned ==
    /\ overwrite.pc = "delete"
    /\ pc_delete = "done"
    /\ delete_response.status = 200

\* the exception raised in the try block of line 301 becomes the 500 of
\* lines 313-318
OverwriteRaises ==
    /\ overwrite' = [overwrite EXCEPT !.pc = "done", !.response = ErrorOverwritingFile]
    /\ UNCHANGED <<kb_points, deleteVars>>

\* knowledge.py, lines 303 and 313-318: delete_file raised, its 404 included
OverwriteDeleteRaised ==
    /\ overwrite.pc = "delete"
    /\ pc_delete = "done"
    /\ delete_response.status # 200
    /\ OverwriteRaises

\* knowledge.py, line 306, and ingest.py, lines 257-269: the 400 of
\* upload_to_qdrant for the extension of the upload
OverwriteReject ==
    /\ DeleteReturned
    /\ FileExt(overwrite.file.filename) \notin Range(SUPPORTED_EXTS)
    /\ OverwriteRaises

\* ingest.py, lines 272-355: the text is read, cleaned, split and embedded,
\* and the points are built under the filename of the upload
OverwriteBuild ==
    /\ DeleteReturned
    /\ FileExt(overwrite.file.filename) \in Range(SUPPORTED_EXTS)
    /\ CleanedDocuments(<<overwrite.file.content>>) # <<>>
    /\ overwrite' = [overwrite EXCEPT
                        !.pc = "upsert",
                        !.points = UploadPoints(3, overwrite.file.filename,
                                                overwrite.file.content, chunk_size)]
    /\ UNCHANGED <<kb_points, deleteVars>>

\* ingest.py, lines 272-355 and 374-379: a step raises (the 400 of lines
\* 307-311 when nothing is left after cleaning, or a failure of the file
\* system or of the embedding provider)
OverwriteBuildFail ==
    /\ DeleteReturned
    /\ FileExt(overwrite.file.filename) \in Range(SUPPORTED_EXTS)
    /\ OverwriteRaises

\* ingest.py, lines 357-372, and knowledge.py, lines 306-311
OverwriteUpsert ==
    /\ overwrite.pc = "upsert"
    /\ kb_points' = kb_points \cup overwrite.points
    /\ overwrite' = [overwrite EXCEPT
                        !.pc = "done",
                        !.response =
                            [status |-> 200,
                             detail |-> "File overwritten successfully",
                             result |-> [filename       |-> overwrite.file.filename,
                                         chunks_created |-> Cardinality(overwrite.points),
                                         vectors_stored |-> Cardinality(overwrite.points),
                                         file_hash      |-> Md5(overwrite.file.content),
                                         collection     |-> "knowledge_base"]]]
    /\ UNCHANGED deleteVars

\* ingest.py, lines 358-362 and 374-379: get_qdrant or client.upsert raises
OverwriteUpsertFail ==
    /\ overwrite.pc = "upsert"
    /\ OverwriteRaises

(***************************************************************************)
(* ensure_collection_exists, called at the construction of the ingestor    *)
(* and of the retriever                                                    *)
(***************************************************************************)

\* the calls of ensure_collection_exists
MaxSetupCalls == 2

\* lines 61 and 83: the fields that get a keyword index
IndexFields == <<"filename", "file_hash">>

\* what the store holds: the collections, and the indexed payload fields of
\* the collection "knowledge_base"
StoreSetup == [collections |-> collections, payload_schema |-> payload_schema]

SetupOff ==
    /\ collections = {}
    /\ payload_schema = {}
    /\ indexed_fields = {}
    /\ schema_read = FALSE
    /\ field_i = 0
    /\ issued = <<>>
    /\ creations = <<>>
    /\ setup_before = [collections |-> {}, payload_schema |-> {}]
    /\ setup_calls = 0
    /\ pc_setup = "off"

\* the store before the first call: the collection may exist, with any of
\* the indexes, beside another collection
InitSetups ==
    /\ collections \in SUBSET {"knowledge_base", "other"}
    /\ payload_schema \in SUBSET Range(IndexFields)
    /\ "knowledge_base" \notin collections => payload_schema = {}
    /\ indexed_fields = {}
    /\ schema_read = FALSE
    /\ field_i = 0
    /\ issued = <<>>
    /\ creations = <<>>
    /\ setup_before = StoreSetup
    /\ setup_calls = 0
    /\ pc_setup = "idle"

\* lines 31-33: ensure_collection_exists("knowledge_base") is called
CallEnsure ==
    /\ pc_setup \in {"idle", "done", "raised"}
    /\ setup_calls < MaxSetupCalls
    /\ setup_calls' = setup_calls + 1
    /\ setup_before' = StoreSetup
    /\ issued' = <<>>
    /\ indexed_fields' = {}
    /\ schema_read' = FALSE
    /\ field_i' = 0
    /\ pc_setup' = "list"
    /\ UNCHANGED <<collections, payload_schema, creations>>

\* lines 33-40 and 95-97: get_qdrant or get_collections raises
ListFail ==
    /\ pc_setup = "list"
    /\ pc_setup' = "raised"
    /\ UNCHANGED <<collections, payload_schema, indexed_fields, schema_read, field_i,
                   issued, creations, setup_before, setup_calls>>

\* lines 37-40: the collection is not among the names
ListAbsent ==
    /\ pc_setup = "list"
    /\ "knowledge_base" \notin collections
    /\ pc_setup' = "create"
    /\ UNCHANGED <<collections, payload_schema, indexed_fields, schema_read, field_i,
                   issued, creations, setup_before, setup_calls>>

\* lines 37-40 and 73-74: the collection is among the names
ListFound ==
    /\ pc_setup = "list"
    /\ "knowledge_base" \in collections
    /\ pc_setup' = "schema"
    /\ UNCHANGED <<collections, payload_schema, indexed_fields, schema_read, field_i,
                   issued, creations, setup_before, setup_calls>>

\* lines 44-51: the store creates the collection, if it does not have it
CreateCollection ==
    /\ pc_setup = "create"
    /\ issued' = Append(issued, <<"create_collection", "knowledge_base">>)
    /\ collections' = collections \cup {"knowledge_base"}
    /\ creations' = IF "knowledge_base" \in collections THEN creations
                    ELSE Append(creations, <<"create_collection", "knowledge_base">>)
    /\ pc_setup' = "schema"
    /\ UNCHANGED <<payload_schema, indexed_fields, schema_read, field_i, setup_before,
                   setup_calls>>

\* lines 44-50 and 95-97: create_collection raises
CreateCollectionFail ==
    /\ pc_setup = "create"
    /\ issued' = Append(issued, <<"create_collection", "knowledge_base">>)
    /\ pc_setup' = "raised"
    /\ UNCHANGED <<collections, payload_schema, indexed_fields, schema_read, field_i,
                   creations, setup_before, setup_calls>>

\* lines 55-56 where the keys of the schema are dropped
ReadSchemaBlind ==
    /\ pc_setup = "schema"
    /\ indexed_fields' = {}
    /\ schema_read' = TRUE
    /\ field_i' = 1
    /\ pc_setup' = "fields"
    /\ UNCHANGED <<collections, payload_schema, issued, creations, setup_before,
                   setup_calls>>

\* lines 55-56 and 77-78: the payload schema of the collection is read
ReadSchema ==
    /\ pc_setup = "schema"
    /\ indexed_fields' = payload_schema
    /\ schema_read' = TRUE
    /\ field_i' = 1
    /\ pc_setup' = "fields"
    /\ UNCHANGED <<collections, payload_schema, issued, creations, setup_before,
                   setup_calls>>

\* lines 57-58 and 79-80: get_collection raises, indexed_fields = []
ReadSchemaFail ==
    /\ pc_setup = "schema"
    /\ indexed_fields' = {}
    /\ schema_read' = FALSE
    /\ field_i' = 1
    /\ pc_setup' = "fields"
    /\ UNCHANGED <<collections, payload_schema, issued, creations, setup_before,
                   setup_calls>>

\* lines 61 and 83: the loop takes the next field, or the function returns
NextField ==
    /\ field_i' = field_i + 1
    /\ pc_setup' = IF field_i < Len(IndexFields) THEN "fields" ELSE "done"

\* lines 61-62 and 83-84: the field is in indexed_fields
FieldIndexed ==
    /\ pc_setup = "fields"
    /\ IndexFields[field_i] \in indexed_fields
    /\ NextField
    /\ UNCHANGED <<collections, payload_schema, indexed_fields, schema_read, issued,
                   creations, setup_before, setup_calls>>

\* lines 62-70 and 84-92: the store creates the index, if it does not have it
CreateIndex ==
    /\ pc_setup = "fields"
    /\ IndexFields[field_i] \notin indexed_fields
    /\ issued' = Append(issued, <<"create_payload_index", IndexFields[field_i]>>)
    /\ payload_schema' = payload_schema \cup {IndexFields[field_i]}
    /\ creations' = IF IndexFields[field_i] \in payload_schema THEN creations
                    ELSE Append(creations, <<"create_payload_index", IndexFields[field_i]>>)
    /\ NextField
    /\ UNCHANGED <<collections, indexed_fields, schema_read, setup_before, setup_calls>>

\* lines 62-72 and 84-94: create_payload_index raises, a warning is logged
CreateIndexFail ==
    /\ pc_setup = "fields"
    /\ IndexFields[field_i] \notin indexed_fields
    /\ issued' = Append(issued, <<"create_payload_index", IndexFields[field_i]>>)
    /\ NextField
    /\ UNCHANGED <<collections, payload_schema, indexed_fields, schema_read, creations,
                   setup_before, setup_calls>>

ApiOff == UploadOff /\ DeleteOff /\ OverwriteOff /\ SetupOff

-----------------------------------------------------------------------------
(* The specifications                                                      *)

InitSplit ==
    /\ InitSplitter
    /\ query = "" /\ ExpandOff /\ StoreOff /\ SearchOff /\ IngestOff /\ CleanOff /\ ApiOff

NextSplit ==
    \/ SplitBegin /\ UNCHANGED notSplit
    \/ SplitChapter /\ UNCHANGED notSplit
    \/ SplitAdd /\ UNCHANGED notSplit
    \/ SplitNatural /\ UNCHANGED notSplit
    \/ SplitForced /\ UNCHANGED notSplit
    \/ SplitEnd /\ UNCHANGED notSplit

\* split_text on every text of at most MaxLines lines
SpecSplit == InitSplit /\ [][NextSplit]_vars

InitExpand ==
    InitExpander /\ SplitOff /\ StoreOff /\ SearchOff /\ IngestOff /\ CleanOff /\ ApiOff

NextExpand ==
    ExpandQuery /\ UNCHANGED notExpand

\* _expand_query on every query of at most MaxQueryPieces pieces
SpecExpand == InitExpand /\ [][NextExpand]_vars

InitSearch ==
    /\ InitStore
    /\ query = "" /\ SearchOff /\ SplitOff /\ ExpandOff /\ IngestOff /\ CleanOff /\ ApiOff

NextSearch ==
    \/ CallSearch /\ UNCHANGED notSearch
    \/ CallGetContext /\ UNCHANGED notSearch
    \/ SearchBegin /\ UNCHANGED notSearch
    \/ ClientFail /\ UNCHANGED notSearch
    \/ Embed /\ UNCHANGED notSearch
    \/ EmbedFail /\ UNCHANGED notSearch
    \/ StoreSearchHit /\ UNCHANGED notSearch
    \/ StoreSearchMiss /\ UNCHANGED notSearch
    \/ StoreSearchFail /\ UNCHANGED notSearch
    \/ GetContextReturn /\ UNCHANGED notSearch

\* one call of search_similar_documents or get_context_for_query on every
\* store and every scoring of its points
SpecSearch == InitSearch /\ [][NextSearch]_vars

\* one call of upload_to_qdrant
InitIngest ==
    /\ InitIngestor
    /\ IngestorSplitter
    /\ query = "" /\ ExpandOff /\ StoreOff /\ SearchOff /\ CleanOff /\ ApiOff

NextIngest ==
    \/ RejectExtension /\ UNCHANGED notIngest
    \/ CreateTemp /\ UNCHANGED notIngest
    \/ CreateTempFail /\ UNCHANGED notIngest
    \/ ReadUpload /\ UNCHANGED notIngest
    \/ ReadUploadFail /\ UNCHANGED notIngest
    \/ WriteTemp /\ UNCHANGED notIngest
    \/ WriteTempFail /\ UNCHANGED notIngest
    \/ LoadPdf /\ UNCHANGED notIngest
    \/ ReadText /\ UNCHANGED notIngest
    \/ ExtractFail /\ UNCHANGED notIngest
    \/ NoDocuments /\ UNCHANGED notIngest
    \/ CleanDocuments /\ UNCHANGED notIngest
    \/ NoUsableDocuments /\ UNCHANGED notIngest
    \/ ChunkDocuments /\ UNCHANGED notIngest
    \/ EmbedChunks /\ UNCHANGED notIngest
    \/ EmbedChunksFail /\ UNCHANGED notIngest
    \/ Upsert /\ UNCHANGED notIngest
    \/ UpsertFail /\ UNCHANGED notIngest
    \/ ExceptHandler /\ UNCHANGED notIngest
    \/ FinallyUnlink /\ UNCHANGED notIngest
    \/ FinallyUnlinkFail /\ UNCHANGED notIngest
    \/ FinallySkip /\ UNCHANGED notIngest

SpecIngest == InitIngest /\ [][NextIngest]_vars

\* clean_pdf_text applied to a text and to its own results
InitClean ==
    /\ InitCleaner
    /\ query = "" /\ SplitOff /\ ExpandOff /\ StoreOff /\ SearchOff /\ IngestOff /\ ApiOff

NextClean ==
    CleanText /\ UNCHANGED notClean

SpecClean == InitClean /\ [][NextClean]_vars

\* the requests of upload_knowledge, their steps interleaved
InitUpload ==
    /\ InitUploads
    /\ DeleteOff /\ OverwriteOff /\ SetupOff
    /\ IngestorSplitter
    /\ query = "" /\ ExpandOff /\ StoreOff /\ SearchOff /\ IngestOff /\ CleanOff

NextUpload ==
    \/ (\E r \in Requests : UploadExists(r)) /\ UNCHANGED notUpload
    \/ (\E r \in Requests : UploadAbsent(r)) /\ UNCHANGED notUpload
    \/ (\E r \in Requests : UploadScrollFail(r)) /\ UNCHANGED notUpload
    \/ (\E r \in Requests : UploadReject(r)) /\ UNCHANGED notUpload
    \/ (\E r \in Requests : UploadAwaitRead(r)) /\ UNCHANGED notUpload
    \/ (\E r \in Requests : UploadBuild(r)) /\ UNCHANGED notUpload
    \/ (\E r \in Requests : UploadBuildFail(r)) /\ UNCHANGED notUpload
    \/ (\E r \in Requests : UploadUpsert(r)) /\ UNCHANGED notUpload
    \/ (\E r \in Requests : UploadUpsertFail(r)) /\ UNCHANGED notUpload

SpecUpload == InitUpload /\ [][NextUpload]_vars

\* delete_file called on a collection, and called again
InitDelete ==
    /\ InitDeletes
    /\ upload = <<>>
    /\ OverwriteOff /\ SetupOff
    /\ query = "" /\ SplitOff /\ ExpandOff /\ StoreOff /\ SearchOff /\ IngestOff /\ CleanOff

NextDelete ==
    \/ CallDelete /\ UNCHANGED notDelete
    \/ ScrollEmpty /\ UNCHANGED notDelete
    \/ ScrollLast /\ UNCHANGED notDelete
    \/ ScrollMore /\ UNCHANGED notDelete
    \/ ScrollFail /\ UNCHANGED notDelete
    \/ DeleteNotFound /\ UNCHANGED notDelete
    \/ DeletePoints /\ UNCHANGED notDelete
    \/ DeleteFail /\ UNCHANGED notDelete

SpecDelete == InitDelete /\ [][NextDelete]_vars

\* overwrite_file called on a collection
InitOverwrite ==
    /\ InitOverwrites
    /\ upload = <<>>
    /\ SetupOff
    /\ IngestorSplitter
    /\ query = "" /\ ExpandOff /\ StoreOff /\ SearchOff /\ IngestOff /\ CleanOff

NextOverwrite ==
    \/ OverwriteCallDelete /\ UNCHANGED notOverwrite
    \/ ScrollEmpty /\ UNCHANGED notDelete
    \/ ScrollLast /\ UNCHANGED notDelete
    \/ ScrollMore /\ UNCHANGED notDelete
    \/ ScrollFail /\ UNCHANGED notDelete
    \/ DeleteNotFound /\ UNCHANGED notDelete
    \/ DeletePoints /\ UNCHANGED notDelete
    \/ DeleteFail /\ UNCHANGED notDelete
    \/ OverwriteDeleteRaised /\ UNCHANGED notOverwrite
    \/ OverwriteReject /\ UNCHANGED notOverwrite
    \/ OverwriteBuild /\ UNCHANGED notOverwrite
    \/ OverwriteBuildFail /\ UNCHANGED notOverwrite
    \/ OverwriteUpsert /\ UNCHANGED notOverwrite
    \/ OverwriteUpsertFail /\ UNCHANGED notOverwrite

SpecOverwrite == InitOverwrite /\ [][NextOverwrite]_vars

\* ensure_collection_exists called on a store, and called again
InitSetup ==
    /\ InitSetups
    /\ UploadOff /\ DeleteOff /\ OverwriteOff
    /\ query = "" /\ SplitOff /\ ExpandOff /\ StoreOff /\ SearchOff /\ IngestOff /\ CleanOff

NextSetup ==
    \/ CallEnsure /\ UNCHANGED notSetup
    \/ ListFail /\ UNCHANGED notSetup
    \/ ListAbsent /\ UNCHANGED notSetup
    \/ ListFound /\ UNCHANGED notSetup
    \/ CreateCollection /\ UNCHANGED notSetup
    \/ CreateCollectionFail /\ UNCHANGED notSetup
    \/ ReadSchema /\ UNCHANGED notSetup
    \/ ReadSchemaFail /\ UNCHANGED notSetup
    \/ FieldIndexed /\ UNCHANGED notSetup
    \/ CreateIndex /\ UNCHANGED notSetup
    \/ CreateIndexFail /\ UNCHANGED notSetup

SpecSetup == InitSetup /\ [][NextSetup]_vars

-----------------------------------------------------------------------------
(* Properties of split_text                                                *)

\* the text is one clean_pdf_text returns unchanged
IsNormalized(t) == clean_pdf_text(t) = t

\* the lines of the chunks returned so far
ChunkLines == UNION {Range(SplitNL(chunks[k].content)) : k \in 1..Len(chunks)}

\* the indexes of the chunks longer than chunk_size
Oversize == {k \in 1..Len(chunks) : Len(chunks[k].content) > chunk_size}

\* C1: chunk coverage. When split_text has returned for a normalized,
\* non-empty text, every line of the text is a line of some chunk: no line
\* is missing from every chunk.
C1_ChunkCoverage ==
    (pc_split = "done" /\ text # "" /\ IsNormalized(text))
        => \A i \in 1..Len(lines) : lines[i] \in ChunkLines

\* C2 as stated: at most one chunk of the document is longer than chunk_size.
C2_AtMostOneOversize ==
    pc_split = "done" => Cardinality(Oversize) <= 1

\* C2 amended: every chunk longer than chunk_size is one single line of the
\* input, which split_text never breaks; a chunk of two or more lines is never
\* longer than chunk_size. (A document can have several such one-line chunks.)
C2_OversizeIsOneLine ==
    \A k \in Oversize :
        /\ ~Contains(chunks[k].content, "\n")
        /\ \E i \in 1..Len(lines) : chunks[k].content = Strip(lines[i])

\* C2 witness: split_text has returned two chunks longer than chunk_size.
C2_TwoOversize ==
    pc_split = "done" /\ Cardinality(Oversize) >= 2

-----------------------------------------------------------------------------
(* Properties of _expand_query                                             *)

\* C8: query expander contract. _expand_query returns a non-empty list of at
\* most 5 variants; the first is the query, unchanged; no two are equal when
\* compared in lower case.
C8_ExpanderContract ==
    pc_expand = "done" =>
        /\ unique_queries # <<>>
        /\ Len(unique_queries) <= 5
        /\ unique_queries[1] = query
        /\ \A i, j \in 1..Len(unique_queries) :
              i # j => Lower(unique_queries[i]) # Lower(unique_queries[j])

\* C8 witness: the candidates held two queries that differ only by case, one
\* of which was dropped, and the list returned has 5 variants.
C8_CaseDuplicateDropped ==
    LET c == ExpandedQueries(query)
    IN  /\ pc_expand = "done"
        /\ \E i, j \in 1..Len(c) : c[i] # c[j] /\ Lower(c[i]) = Lower(c[j])
        /\ Len(unique_queries) = 5

\* the query is "cap|tulo N" for a number N
IsChapterQuery(q) ==
    /\ StartsAt(q, 1, "cap|tulo ")
    /\ IsDigitStr(From(q, Len("cap|tulo ") + 1))

\* C9: query-expansion scenario. For the query "cap|tulo N" the expansion
\* holds "cap|tulo N", "chapter N", "capitulo N", "secci*n N" and "tema N",
\* and the query is first.
C9_ChapterExpansion ==
    (pc_expand = "done" /\ IsChapterQuery(query)) =>
        LET N == From(query, Len("cap|tulo ") + 1)
        IN  /\ unique_queries[1] = query
            /\ {"cap|tulo " \o N, "chapter " \o N, "capitulo " \o N,
                "secci*n " \o N, "tema " \o N} \subseteq Range(unique_queries)

\* C9 witness: "cap|tulo 5" and a query with a number of two digits have been
\* expanded.
C9_ChapterQueryExpanded ==
    /\ pc_expand = "done"
    /\ IsChapterQuery(query)
    /\ query \in {"cap|tulo 5", "cap|tulo 12"}
    /\ Len(unique_queries) = 5

-----------------------------------------------------------------------------
(* Properties of search_similar_documents and get_context_for_query        *)

\* the call has returned to its caller
SearchReturned ==
    \/ caller = "search" /\ pc_search = "returned"
    \/ caller = "get_context" /\ pc_search = "done"

\* C3: budget respect. When get_context_for_query has returned a context of
\* more than one chunk, the context is not longer than max_chars.
C3_BudgetRespect ==
    (caller = "get_context" /\ pc_search = "done" /\ bundle.context_count > 1)
        => Len(bundle.context) <= max_chars

\* C4: dedup invariant. The list search_similar_documents returns never holds
\* two results with the same content text, whichever points the variants hit.
C4_DedupInvariant ==
    pc_search \in {"returned", "done"} =>
        \A i, j \in 1..Len(final_results) :
            i # j => final_results[i].content # final_results[j].content

\* C4 witness: two stored points of equal text were both hit by each of two
\* variants, and the search returned with one result of that text.
C4_DuplicateHitDropped ==
    /\ pc_search = "returned"
    /\ ~search_error
    /\ Len(queries) = 2
    /\ limit >= Cardinality(store)
    /\ \E p, q \in store : p # q /\ p.content = q.content
    /\ \E k \in 1..Len(final_results) : final_results[k].content = "aa"

\* C10: graceful retrieval degradation. A call always ends by returning, and
\* when the store is empty or the client, the embedding provider or the store
\* failed at any point, search returns the empty list and get_context the
\* empty bundle: context "", context_count 0, no sources.
C10_GracefulDegradation ==
    /\ pc_search \in {"idle", "client", "embed", "search", "returned", "done"}
    /\ (pc_search \in {"returned", "done"} /\ (search_error \/ store = {}))
          => final_results = <<>>
    /\ (pc_search = "done" /\ (search_error \/ store = {}))
          => /\ bundle.context = ""
             /\ bundle.context_count = 0
             /\ bundle.sources = <<>>

\* C10 witness: get_context_for_query has returned after a failure that came
\* when a first variant had already found results.
C10_FailureAfterResults ==
    /\ pc_search = "done"
    /\ search_error
    /\ all_results # <<>>
    /\ qi = 2

-----------------------------------------------------------------------------
(* Properties of upload_to_qdrant                                          *)

\* C5: temporary-file cleanup. When upload_to_qdrant has returned or raised,
\* on whichever path, the temporary file made for the upload does not exist.
C5_TempFileCleanup ==
    pc_ingest = "done" => temp_files = {}

\* the cleaned text of the upload is empty
CleansToNothing == documents # <<>> /\ CleanedDocuments(documents) = <<>>

\* C6: empty input. Ingesting a file whose cleaned text is empty fails with
\* the error raised for it, status 400 and the detail of "no usable text", and
\* writes no point.
C6_EmptyDocument ==
    (pc_ingest = "done" /\ CleansToNothing) =>
        /\ response = HTTPException(
              400, "No usable text could be extracted from the file after cleaning")
        /\ points = <<>>
        /\ collection \subseteq OtherPoints

\* the points of the collection that carry the name of the upload
FilePoints == {p \in collection : p.payload.filename = filename}

\* C7: point payload invariant. After a successful ingest that made N chunks,
\* N points were upserted, one per chunk, with the chunk_index values 0..N-1
\* and no repeats, each with total_chunks = N and the hash of the file, and
\* chunks_created and vectors_stored are both N.
C7_PointPayload ==
    (pc_ingest = "done" /\ response.status = 200) =>
        LET N == Len(all_chunks)
        IN  /\ Len(points) = N
            /\ Cardinality(FilePoints) = N
            /\ FilePoints = Range(points)
            /\ {p.payload.chunk_index : p \in FilePoints} = 0..(N - 1)
            /\ \A k \in 1..N : points[k].payload.content = all_chunks[k].content
            /\ \A p \in FilePoints :
                  /\ p.payload.total_chunks = N
                  /\ p.payload.file_hash = Md5(file_content)
            /\ response.chunks_created = N
            /\ response.vectors_stored = N
            /\ collection \ FilePoints \subseteq OtherPoints

\* C7 witness: an ingest into a collection that held other points has
\* succeeded with three chunks or more.
C7_SeveralChunksStored ==
    /\ pc_ingest = "done"
    /\ response.status = 200
    /\ Len(all_chunks) >= 3
    /\ collection \ FilePoints # {}

-----------------------------------------------------------------------------
(* Further properties of split_text                                        *)

\* the lines the buffer of the next chunk took over from the last chunk
SharedLines ==
    Range(current_chunk_lines) \cap Range(SplitNL(chunks[Len(chunks)].content))

\* C11: overlap bound. When split_text has ended a chunk by a natural split,
\* the lines the next chunk shares with it are at least one and at most
\* chunk_overlap.
C11_OverlapBound ==
    last_split = "natural" =>
        /\ SharedLines # {}
        /\ Cardinality(SharedLines) <= chunk_overlap

-----------------------------------------------------------------------------
(* Properties of clean_pdf_text                                            *)

\* C12: idempotent normalization. clean_pdf_text applied to what
\* clean_pdf_text returned for a text returns it unchanged.
C12_Idempotent ==
    Len(cleaned) >= 2 => cleaned[2] = cleaned[1]

\* C12 witness: the first call put a marker on a line of its own in a text
\* that had no line break, and the second call has returned.
C12_CleanedTwice ==
    /\ Len(cleaned) = 2
    /\ ~Contains(raw, "\n")
    /\ Contains(cleaned[1], "\nTema 1")

-----------------------------------------------------------------------------
(* Further properties of search_similar_documents and get_context_for_query *)

\* the search ran to its return statement
SearchCompleted == pc_search \in {"returned", "done"} /\ ~search_error

\* C13: ranked, bounded search result. The list a completed search returns
\* has at most limit entries, in the order of non-increasing similarity_score,
\* and they are the limit best of all_results, the deduplicated pool: every
\* entry of the pool left out scores no more than any entry returned.
C13_RankedBounded ==
    SearchCompleted =>
        /\ Len(final_results) = Min(limit, Len(all_results))
        /\ \A i, j \in 1..Len(final_results) :
              i < j => final_results[i].similarity_score >= final_results[j].similarity_score
        /\ Range(final_results) \subseteq Range(all_results)
        /\ \A r \in Range(all_results) \ Range(final_results) :
              \A f \in Range(final_results) : r.similarity_score <= f.similarity_score

\* C13 witness: a completed search left out a part of a pool whose entries
\* have different scores, the best of them not found first.
C13_PoolTruncated ==
    /\ SearchCompleted
    /\ Len(all_results) > limit
    /\ all_results[1].similarity_score < final_results[1].similarity_score

-----------------------------------------------------------------------------
(* Further properties of upload_to_qdrant                                  *)

\* C14: unsupported format rejection. For a file whose extension is not in
\* SUPPORTED_EXTS upload_to_qdrant raises the 400 that lists the supported
\* extensions, and has done nothing else: no temporary file, no document
\* read, no chunk, no point, and the collection as it was.
C14_UnsupportedRejected ==
    (pc_ingest = "done" /\ FileExt(filename) \notin Range(SUPPORTED_EXTS))
        => /\ response.status = 400
           /\ response.detail =
                 "Unsupported file type '" \o FileExt(filename) \o "'. Supported: "
                 \o ".pdf, .txt, .md, .py, .js, .ts, .tsx, .json, .csv, .sql, "
                 \o ".html, .css, .yaml, .yml, .java"
           /\ temp_files = {} /\ temp_file_path = None
           /\ documents = <<>> /\ cleaned_documents = <<>> /\ all_chunks = <<>>
           /\ points = <<>>
           /\ collection \subseteq OtherPoints
           /\ error = NoError

\* C14 witness: the upload of "c.exe" has been rejected.
C14_ExeRejected ==
    /\ pc_ingest = "done"
    /\ FileExt(filename) = ".exe"
    /\ collection # {}

(***************************************************************************)
(* Properties of the routes of src/api/knowledge.py                        *)
(***************************************************************************)

\* the call that made the point
Ingestion(p) == p.id[1]

\* C15: at every moment of every interleaving of the upload_knowledge
\* requests, the points of the collection that carry one filename were all
\* written by one ingestion, and a request that was answered exists=True
\* has written no point.
C15_FilenameUnique ==
    /\ \A p, q \in kb_points :
           p.payload.filename = q.payload.filename => Ingestion(p) = Ingestion(q)
    /\ \A r \in DOMAIN upload :
           (upload[r].pc = "done" /\ upload[r].response.status = 201
                /\ upload[r].response.exists)
               => \A p \in kb_points : Ingestion(p) # r

\* the points that carried the filename when delete_file was called
HadFilename == ScrollFilter(kb_before, delete_filename)

\* C16: when a call of delete_file has returned success, no point with the
\* filename is left, chunks_deleted is the number of points that carried it
\* when the call began, on one page or on several, and the points of the
\* other files are the ones of before; when no point carried the filename
\* and the store answered, the call fails with 404; a call that fails leaves
\* the collection as it was.
C16_CascadingDelete ==
    pc_delete = "done" =>
        /\ delete_response.status = 200 =>
               /\ ScrollFilter(kb_points, delete_filename) = {}
               /\ delete_response.chunks_deleted = Cardinality(HadFilename)
               /\ kb_points = kb_before \ HadFilename
        /\ HadFilename = {} => delete_response.status \in {404, 500}
        /\ delete_response.status = 404 => HadFilename = {}
        /\ delete_response.status # 200 => kb_points = kb_before

\* a file whose points fill more than two pages has been deleted and the
\* points of another file are left
C16_SeveralPagesDeleted ==
    /\ pc_delete = "done"
    /\ delete_response.status = 200
    /\ delete_response.chunks_deleted > 2 * ScrollLimit
    /\ kb_points # {}

-----------------------------------------------------------------------------
(* Properties of the bundle of get_context_for_query                       *)

\* C17: whenever the bundle get_context_for_query has returned holds no
\* source, its similarity_scores is the marker "No relevant sources found",
\* never the empty string.
C17_NoSourcesMarker ==
    (caller = "get_context" /\ pc_search = "done" /\ bundle.sources = <<>>)
        => bundle.similarity_scores = "No relevant sources found"

\* C19: the bundle get_context_for_query has returned holds at most max_chunks
\* chunks: neither context_count nor the number of sources is above
\* max_chunks.
C19_ChunkCap ==
    (caller = "get_context" /\ pc_search = "done")
        => /\ bundle.context_count <= max_chunks
           /\ Len(bundle.sources) <= max_chunks

-----------------------------------------------------------------------------
(* Properties of ensure_collection_exists                                  *)

\* the collection and both indexes existed when the call began
SetupComplete ==
    /\ "knowledge_base" \in setup_before.collections
    /\ setup_before.payload_schema = Range(IndexFields)

\* over the calls made so far the store has created nothing twice
CreatedAtMostOnce ==
    \A i, j \in 1..Len(creations) : i # j => creations[i] # creations[j]

-----------------------------------------------------------------------------
(* Properties of the searches search_similar_documents sends to the store  *)

\* the calls of client.search made for the variant v, in order
VariantSearches(v) == SelectSeq(searches, LAMBDA s : s.variant = v)

\* the k-th threshold of the protocol for score_threshold T: T, T - 0.1 and
\* T - 0.2, the differences being the ones binary64 gives
ProtocolThreshold(T, k) ==
    CASE k = 1 -> T
      [] k = 2 -> FloatSub(T, 10000)
      [] k = 3 -> FloatSub(T, 20000)

\* C20: for every variant and every score_threshold T, the first search sent
\* to the store has the threshold T; a further search is sent only when all
\* the earlier ones of the variant returned nothing, the second at T - 0.1
\* and the third at T - 0.2, none under the floor 0.1 and none after the
\* third; the first search that returns results ends the searches of the
\* variant, and its results are the ones of the variant in all_results.
C20_ThresholdProtocol ==
    \A v \in {searches[n].variant : n \in 1..Len(searches)} :
        LET L == VariantSearches(v)
        IN  /\ Len(L) <= 3
            /\ \A k \in 1..Len(L) :
                   /\ L[k].threshold = ProtocolThreshold(score_threshold, k)
                   /\ L[k].threshold >= ThresholdFloor
                   /\ k < Len(L) => L[k].outcome = "nothing"
                   /\ L[k].outcome = "results" =>
                          \A r \in Range(QdrantSearch(v, limit, L[k].threshold)) :
                              \E a \in 1..Len(all_results) :
                                  all_results[a].content = r.payload.content

\* the search has returned; one variant needed three searches, the third of
\* which returned results
C20_ThirdSearchHit ==
    /\ pc_search = "returned"
    /\ ~search_error
    /\ \E v \in 1..Len(queries) :
           /\ Len(VariantSearches(v)) = 3
           /\ VariantSearches(v)[3].outcome = "results"

-----------------------------------------------------------------------------
(* The order in which search_similar_documents takes the query variants    *)

\* lines 130-148 for the variant v: the results of the first search that
\* returns any, the thresholds being tried in order down to the floor
VariantHits(v) ==
    LET T    == Thresholds(score_threshold)
        cut  == {k \in 1..Len(T) : T[k] < ThresholdFloor}
        last == IF cut = {} THEN Len(T)
                ELSE (CHOOSE k \in cut : \A j \in cut : k <= j) - 1
        hit  == {k \in 1..last : QdrantSearch(v, limit, T[k]) # <<>>}
    IN  IF hit = {} THEN <<>>
        ELSE QdrantSearch(v, limit, T[CHOOSE k \in hit : \A j \in hit : k <= j])

\* lines 123-166 with the loop of line 123 taking the variants in `order`
RECURSIVE PoolInOrder(_, _)
PoolInOrder(all, order) ==
    IF order = <<>> THEN all
    ELSE PoolInOrder(FormatResults(all, VariantHits(Head(order)), queries[Head(order)]),
                     Tail(order))

\* lines 123-176 with the loop of line 123 taking the variants in `order`
SearchInOrder(order) == SortAndTruncate(PoolInOrder(<<>>, order), limit)

\* the orders in which the variants of the call can be taken
VariantOrders ==
    {o \in [1..Len(queries) -> 1..Len(queries)] :
        \A i, j \in 1..Len(queries) : o[i] = o[j] => i = j}

\* what the claim compares: content and similarity_score, in order
ContentScores(results) ==
    [k \in 1..Len(results) |-> <<results[k].content, results[k].similarity_score>>]

\* the variants taken in the order of the code give the list the code returns
InOrderIsReturned ==
    SearchCompleted => SearchInOrder([k \in 1..Len(queries) |-> k]) = final_results

\* C21: variant-order independence. For a fixed store and fixed hit lists of
\* the variants, the list search_similar_documents returns has the same
\* contents with the same similarity_score values in the same order, in
\* whichever order the loop over the variants takes them.
C21_OrderIndependent ==
    SearchCompleted =>
        \A o \in VariantOrders : ContentScores(SearchInOrder(o)) = ContentScores(final_results)

-----------------------------------------------------------------------------
(* The order of the chunks in the bundle of get_context_for_query          *)

\* s.split("\n") without recursion: the text between consecutive newlines
LinesOf(s) ==
    LET ends   == {i \in 1..Len(s) : At(s, i) = "\n"} \cup {Len(s) + 1}
        before == [e \in ends |-> {j \in ends : j < e}]
        nth(k) == CHOOSE e \in ends : Cardinality(before[e]) = k - 1
        first(e) == IF before[e] = {} THEN 1
                    ELSE (CHOOSE j \in before[e] : \A i \in before[e] : i <= j) + 1
    IN  [k \in 1..Cardinality(ends) |-> SubSeq(s, first(nth(k)), nth(k) - 1)]

\* the rows of a context that are document headers and the ones that are chunks
HeaderRows(rows) == {k \in 1..Len(rows) : StartsAt(rows[k], 1, "[Document: ")}

ChunkRows(rows) == {k \in 1..Len(rows) : StartsAt(rows[k], 1, "Chunk ")}

\* the filename of the header row h
HeaderFile(h) == SubSeq(h, Len("[Document: ") + 1, Len(h) - 1)

\* the number N of the chunk row "Chunk N: ..."
ChunkNumber(c) == ToInt(SubSeq(c, Len("Chunk ") + 1, FindFrom(c, ": ", 1) - 1))

\* the chunks of a context in the order of the text, each with the filename of
\* the header it stands under and the chunk_index its number gives
ContextChunks(s) ==
    LET rows    == LinesOf(s)
        hs      == HeaderRows(rows)
        cs      == ChunkRows(rows)
        nth(k)  == CHOOSE c \in cs : Cardinality({j \in cs : j < c}) = k - 1
        head(c) == CHOOSE h \in hs : h < c /\ \A g \in hs : g < c => g <= h
    IN  [k \in 1..Cardinality(cs) |->
            [filename    |-> HeaderFile(rows[head(nth(k))]),
             chunk_index |-> ChunkNumber(rows[nth(k)]) - 1]]

\* every filename of the list is in one run of neighbours, and the chunks of a
\* filename come with non-decreasing chunk_index
GroupedAndOrdered(cs) ==
    \A i, j \in 1..Len(cs) :
        (i < j /\ cs[i].filename = cs[j].filename) =>
            /\ cs[i].chunk_index <= cs[j].chunk_index
            /\ \A k \in i..j : cs[k].filename = cs[i].filename

\* C22: context ordering. In the bundle get_context_for_query returns the
\* chunks of one filename are neighbours under one document header, the only
\* header of that filename, and within a filename the context text and the
\* sources list both give the chunks with non-decreasing chunk_index, the text
\* in the order of the sources, whatever the order search returned them in.
C22_ContextOrdering ==
    (caller = "get_context" /\ pc_search = "done") =>
        LET rows == LinesOf(bundle.context)
            shown == ContextChunks(bundle.context)
        IN  /\ GroupedAndOrdered(bundle.sources)
            /\ GroupedAndOrdered(shown)
            /\ \A g, h \in HeaderRows(rows) : rows[g] = rows[h] => g = h
            /\ shown = [k \in 1..Len(bundle.sources) |->
                          [filename    |-> bundle.sources[k].filename,
                           chunk_index |-> bundle.sources[k].chunk_index]]

\* C22 witness: search returned a chunk of another file between two chunks of
\* one file, the later of the two having the smaller chunk_index, and the
\* bundle holds all three
C22_InterleavedInput ==
    /\ caller = "get_context"
    /\ pc_search = "done"
    /\ bundle.context_count = 3
    /\ Len(final_results) = 3
    /\ final_results[1].filename = final_results[3].filename
    /\ final_results[1].filename # final_results[2].filename
    /\ final_results[1].chunk_index > final_results[3].chunk_index

-----------------------------------------------------------------------------
(* Where get_context_for_query stops                                       *)

\* lines 231-237: the results in the order the two loops take them, file by
\* file and by chunk_index within a file
RECURSIVE TakenOrder(_, _)
TakenOrder(files, docs) ==
    IF files = <<>> THEN <<>>
    ELSE FileDocs(docs, Head(files)) \o TakenOrder(Tail(files), docs)

\* the results of the call in the order the loops take them
Taken == TakenOrder(FileOrder(final_results, {}), final_results)

\* the result is in the bundle
Included(doc) == Source(doc) \in Range(bundle.sources)

\* the filename has a document section in the context
HasSection(file) ==
    LET rows == LinesOf(bundle.context)
    IN  \E h \in HeaderRows(rows) : HeaderFile(rows[h]) = file

\* C23: context assembly stops at the first over-budget chunk. Once a chunk
\* has been refused because it would take the running count over max_chars,
\* no chunk the loops come to later is in the bundle, and no file later than
\* the one of the refused chunk has a document section in the context.
C23_StopsAtFirstOverBudget ==
    (caller = "get_context" /\ pc_search = "done") =>
        \A k \in 1..Len(Taken) :
            ~Included(Taken[k]) =>
                \A j \in (k + 1)..Len(Taken) :
                    /\ ~Included(Taken[j])
                    /\ Taken[j].filename # Taken[k].filename => ~HasSection(Taken[j].filename)

-----------------------------------------------------------------------------
(* The chapter metadata of the chunks of split_text                        *)

\* the index of the last chapter or section marker among the first n lines,
\* 0 if none of them has one
LatestMarker(n) ==
    LET ms == {k \in 1..Min(n, Len(lines)) : extract_chapter_info(lines[k]).current_chapter # None}
    IN  IF ms = {} THEN 0 ELSE CHOOSE k \in ms : \A j \in ms : j <= k

\* the chunk carries the label and the number of the marker of line m
CarriesMarker(chunk, m) ==
    /\ chunk.metadata.current_chapter = extract_chapter_info(lines[m]).current_chapter
    /\ "chapter_number" \in DOMAIN chunk.metadata
    /\ chunk.metadata.chapter_number = extract_chapter_info(lines[m]).chapter_number

\* a step of split_text that produces a chunk after a marker has been seen
\* gives it the metadata of the latest marker seen: the latest before the line
\* of the step or, when that line is a marker itself, this one
InheritsChapter ==
    (pc_split = "loop" /\ Len(chunks') > Len(chunks) /\ LatestMarker(pos - 1) > 0) =>
        \/ CarriesMarker(chunks'[Len(chunks')], LatestMarker(pos - 1))
        \/ CarriesMarker(chunks'[Len(chunks')], LatestMarker(pos))

\* C24: chapter metadata inheritance. Once split_text has seen a marker, every
\* chunk it produces afterwards carries the chapter label and number of the
\* latest marker seen, the chunks produced after a forced split included.
C24_ChapterInherited == [][InheritsChapter]_vars

-----------------------------------------------------------------------------
(* What split_text does with a buffer that has reached chunk_size          *)

\* the buffer with the line of the step added
BufferLines == Append(current_chunk_lines, lines[pos])

\* the step adds a line that takes the buffer to chunk_size
BufferFull ==
    /\ pc_split = "loop"
    /\ pos <= Len(lines)
    /\ SplitBranch(SplitLocal, lines[pos], chunk_size) \in {"natural", "forced"}

\* the positions (1-based) of the blank lines from the midpoint of the buffer on
BlankFromMidpoint ==
    {i \in (Len(BufferLines) \div 2 + 1)..Len(BufferLines) : Strip(BufferLines[i]) = ""}

\* a full buffer is split at its first blank line from the midpoint on, the
\* chunk being the lines before it and the next buffer some of the last of
\* them; without such a blank line the chunk is the whole buffer and the next
\* buffer is empty
SplitsAsDescribed ==
    BufferFull =>
        /\ Len(chunks') = Len(chunks) + 1
        /\ IF BlankFromMidpoint # {}
           THEN LET b == CHOOSE i \in BlankFromMidpoint : \A j \in BlankFromMidpoint : i <= j
                IN  /\ chunks'[Len(chunks')].content = Strip(JoinNL(SubSeq(BufferLines, 1, b - 1)))
                    /\ \E n \in 1..(b - 1) :
                           current_chunk_lines' = SubSeq(BufferLines, n, b - 1)
           ELSE /\ chunks'[Len(chunks')].content = Strip(JoinNL(BufferLines))
                /\ current_chunk_lines' = <<>>
                /\ current_chunk' = ""

\* C25: natural versus forced split. When the buffer reaches chunk_size it is
\* split at a blank line found from its midpoint forward, overlap lines being
\* carried into the next buffer; when there is no such blank line the whole
\* buffer is emitted as one chunk and the next buffer starts empty.
C25_NaturalOrForced == [][SplitsAsDescribed]_vars

-----------------------------------------------------------------------------
(* The lines of a text clean_pdf_text has normalized                       *)

\* a line of text that is not empty and that clean_pdf_text, given it alone,
\* returns as it is: not a number, not a single character, nothing to replace
IsPlainLine(l) == l # "" /\ clean_pdf_text(l) = l

\* C26: line structure is preserved by normalization. Two non-empty,
\* non-numeric text lines that are on different lines of the text given to
\* clean_pdf_text are on different lines, in the same order, of the text it
\* returns.
C26_LinesPreserved ==
    Len(cleaned) >= 1 =>
        LET inp == SplitNL(raw)
            out == SplitNL(cleaned[1])
        IN  \A i, j \in 1..Len(inp) :
                (i < j /\ IsPlainLine(inp[i]) /\ IsPlainLine(inp[j])) =>
                    \E a, b \in 1..Len(out) : a < b /\ out[a] = inp[i] /\ out[b] = inp[j]

-----------------------------------------------------------------------------
(* The expansion of a query that refers to a numbered section              *)

\* the words that introduce a numbered-section reference
SectionWords == {"cap|tulo ", "secci*n ", "tema ", "parte "}

\* the query, in lower case, holds one of the words followed by a number
HasSectionReference(q) == \E w \in SectionWords : SearchNum(Lower(q), w, 1) # ""

\* C27: numbered-section expansion. For every query that holds a reference
\* "cap|tulo N", "secci*n N", "tema N" or "parte N", _expand_query returns the
\* query and at least one variant besides it.
C27_SectionExpanded ==
    (pc_expand = "done" /\ HasSectionReference(query)) =>
        /\ unique_queries[1] = query
        /\ Len(unique_queries) >= 2

-----------------------------------------------------------------------------
(* upload_to_qdrant when the embedding provider fails                      *)

\* get_embeddings raised in this call: the exception in flight is the one it
\* raised, or the one the except clause made of it
EmbeddingFailed ==
    \/ error = HTTPException(0, "get_embeddings")
    \/ error = ExceptionWrapped(HTTPException(0, "get_embeddings"))

\* C29: embedding failure leaves the store unchanged. When get_embeddings
\* raises, upload_to_qdrant does not call it again and goes on to no upsert:
\* no point has been built, the collection holds no point of the file and
\* nothing but the points it held before, and the caller gets the 500 "Error
\* processing document" made of the failure.
C29_EmbeddingFailure ==
    EmbeddingFailed =>
        /\ pc_ingest \in {"except", "finally", "done"}
        /\ points = <<>>
        /\ FilePoints = {}
        /\ collection \subseteq OtherPoints
        /\ pc_ingest = "done" =>
               response = ExceptionWrapped(HTTPException(0, "get_embeddings"))

\* C29 witness: the embedding of a file of several chunks failed, the
\* collection held points of another file, and the call has ended
C29_EmbeddingFailedCall ==
    /\ EmbeddingFailed
    /\ pc_ingest = "done"
    /\ Len(all_chunks) >= 2
    /\ collection # {}
    /\ response.status = 500

-----------------------------------------------------------------------------
(* The collection after overwrite_file                                     *)

\* overwrite_file has returned its result
OverwriteSucceeded == overwrite.pc = "done" /\ overwrite.response.status = 200

\* overwrite_file has raised
OverwriteFailed == overwrite.pc = "done" /\ overwrite.response.status # 200

\* C28: overwrite post-state. After overwrite_file(F, file) has returned
\* success, the points stored under F are exactly the chunks of the upload,
\* one point per chunk and none of the points F had before, and the points of
\* every other filename are the ones it had before the call.
C28_OverwritePostState ==
    OverwriteSucceeded =>
        LET F    == overwrite.filename
            mine == ScrollFilter(kb_points, F)
            cs   == AllChunks(CleanedDocuments(<<overwrite.file.content>>), chunk_size)
        IN  /\ mine \cap kb_before = {}
            /\ Cardinality(mine) = Len(cs)
            /\ \A k \in 1..Len(cs) :
                   \E p \in mine : /\ p.payload.chunk_index = k - 1
                                   /\ p.payload.content = cs[k].content
            /\ \A p \in kb_points \cup kb_before :
                   p.payload.filename # F => (p \in kb_points <=> p \in kb_before)

\* C30: failed overwrite keeps the old document. When overwrite_file(F, file)
\* has raised, because F is not in the collection or because a step of the
\* deletion or of the ingestion failed, the points stored under F are the
\* ones stored under F before the call.
C30_FailedOverwriteKeepsOld ==
    OverwriteFailed =>
        ScrollFilter(kb_points, overwrite.filename)
            = ScrollFilter(kb_before, overwrite.filename)

====
